---------------------------- MODULE Spec2Model ----------------------------
(***************************************************************************)
(* A model of the reliability layer of the Cloud SDK:                      *)
(*   - retryWithBackoff and its error classifier                           *)
(*     (providers/aws/{storage,database,compute});                         *)
(*   - the in-memory mock provider (providers/mock) with its operation     *)
(*     recorder, run by concurrent goroutines.                             *)
(* Durations are in milliseconds.  Error messages are sequences of words.  *)
(***************************************************************************)
EXTENDS Integers, Sequences, FiniteSets, TLC

VARIABLES
    \* ---- retryWithBackoff (one execution) ----
    svc,          \* which package's copy runs: "storage", "database", "compute"
    config,       \* RetryConfig
    rpc,          \* position in retryWithBackoff
    attempt,      \* loop variable
    delay,        \* local variable delay
    lastErr,      \* local variable lastErr
    ret,          \* the value returned
    ctxDone,      \* state of ctx: "no", "canceled", "deadline"
    calls,        \* history: number of invocations of operation()
    sleeps,       \* history: the delays of the time.After waits that elapsed
    allRetryable, \* history: every invocation so far returned a retryable error
    via,          \* history: the return statement taken
    cancelCalls,  \* history: calls at a cancellation between attempts, or -1
    \* ---- MockProvider ----
    vmResponses,  \* name -> address of the configured *services.VM
    dbResponses,  \* name -> address of the configured *services.DBInstance
    errors,       \* method -> injected error
    delays,       \* the methods with a configured delay
    heap,         \* address -> the services.VM / services.DBInstance stored there
    vmState,      \* id -> address
    bucketState,  \* name -> BucketState
    dbState,      \* id -> address
    mu,           \* sync.RWMutex: 0 when free, else the goroutine holding Lock()
    operations,   \* the recorded operations
    callCounts,   \* method -> count
    lastCallArgs, \* method -> args
    \* ---- the goroutines calling the mock services ----
    pc,           \* goroutine -> position in its current call
    cur,          \* goroutine -> the call in progress: method and arguments
    res,          \* goroutine -> the result and error being returned
    tmp,          \* goroutine -> callCounts[method] as read by callCounts[method]++
    now,          \* time.Now()
    started,      \* a service method has been called: configuration is over
    crashed,      \* the runtime threw "concurrent map writes" / "read and map write"
    callsLeft,    \* history: calls the goroutines may still start
    setupLeft,    \* history: With... calls the test may still make
    completed,    \* history: method -> number of calls that returned
    \* ---- cloudsdk.Client over the mock provider ----
    supportedServices, \* MockProvider.supportedServices
    access,       \* the outcome of the last Compute()/Storage()/Database() call
    accessorCalls,\* history: service -> calls of the provider's accessor
    panics,       \* history: number of accessor calls that panicked
    \* ---- cloudsdk.CloudError ----
    cloudErrs,    \* address -> the CloudError stored there
    enrich,       \* the last With... call: receiver, value before, pointer returned
    \* ---- AWSStorage.CreateBucket ----
    phase,        \* position in CreateBucket
    versioning,   \* config.Versioning != nil && *config.Versioning
    out,          \* the ErrorCode of the error CreateBucket returned, or "nil"
    \* ---- ProviderContractSuite ----
    suiteStep,    \* the next call of the suite
    suiteFailed,  \* s.t.Error / s.t.Errorf was called
    suiteSaved    \* the id and name of the resource the running test created

varsSim == <<vmResponses, dbResponses, errors, delays, heap, vmState,
             bucketState, dbState, mu, operations, callCounts, lastCallArgs,
             pc, cur, res, tmp, now, started, crashed, callsLeft, setupLeft,
             completed>>

varsRetry == <<svc, config, rpc, attempt, delay, lastErr, ret, ctxDone, calls,
               sleeps, allRetryable, via, cancelCalls>>

varsClient == <<supportedServices, access, accessorCalls, panics>>

varsCloudError == <<cloudErrs, enrich>>

varsCreateBucket == <<phase, versioning, out>>

varsSuite == <<suiteStep, suiteFailed, suiteSaved>>

varsSdk == <<varsClient, varsCloudError, varsCreateBucket, varsSuite>>

-----------------------------------------------------------------------------
(* Bounds *)

MaxAttemptsBound == 9

\* the calls the goroutines make in all, the With... calls before them, and
\* the last clock reading
MaxCalls == 2
MaxSetup == 1
MaxClock == 1

\* the calls of the single-goroutine storage scenario
MaxStorageCalls == 5

\* the calls of the single-goroutine VM and database scenario
MaxLifecycleCalls == 4

\* the calls, Reset included, of the two goroutines of the Reset scenario
MaxResetCalls == 3

-----------------------------------------------------------------------------
(* MockProvider: state *)

\* the goroutines calling the mock services
Procs == {1, 2}

Methods == {"CreateVM", "GetVM", "ListVMs", "DeleteVM", "StartVM", "StopVM",
            "CreateBucket", "ListBuckets", "DeleteBucket", "PutObject",
            "GetObject", "DeleteObject", "ListObjects", "CreateDB", "GetDB",
            "ListDBs", "DeleteDB"}

\* the empty map
EmptyMap == [x \in {} |-> 0]

\* m[k] = v added to (or replaced in) map m
MapPut(m, k, v) == [x \in DOMAIN m \cup {k} |-> IF x = k THEN v ELSE m[x]]

\* delete(m, k)
MapDelete(m, k) == [x \in DOMAIN m \ {k} |-> m[x]]

NoCall == [method |-> "", args |-> <<>>]
NoRes == [result |-> {}, err |-> "nil"]

\* mock.New(region)
New ==
    /\ vmResponses = EmptyMap
    /\ dbResponses = EmptyMap
    /\ errors = EmptyMap
    /\ delays = {}
    /\ heap = <<>>
    /\ vmState = EmptyMap
    /\ bucketState = EmptyMap
    /\ dbState = EmptyMap
    /\ mu = 0
    /\ operations = <<>>
    /\ callCounts = [m \in Methods |-> 0]
    /\ lastCallArgs = EmptyMap
    /\ pc = [p \in Procs |-> "idle"]
    /\ cur = [p \in Procs |-> NoCall]
    /\ res = [p \in Procs |-> NoRes]
    /\ tmp = [p \in Procs |-> 0]
    /\ now = 0
    /\ started = FALSE
    /\ crashed = FALSE
    /\ callsLeft = MaxCalls
    /\ setupLeft = MaxSetup
    /\ completed = [m \in Methods |-> 0]

-----------------------------------------------------------------------------
(* The client, CloudError, CreateBucket and the contract suite at rest *)

AllServices == {"compute", "storage", "database"}

NoAccess == [service |-> "", outcome |-> "none", provider |-> "", named |-> ""]

NoEnrich == [op |-> "", recv |-> 0, ret |-> 0]

\* mock.New supports all three services; no accessor was called, no CloudError
\* was built, CreateBucket and the suite are not running
SdkIdle ==
    /\ supportedServices = AllServices
    /\ access = NoAccess
    /\ accessorCalls = [s \in AllServices |-> 0]
    /\ panics = 0
    /\ cloudErrs = <<>>
    /\ enrich = NoEnrich
    /\ phase = "none"
    /\ versioning = FALSE
    /\ out = "nil"
    /\ suiteStep = 0
    /\ suiteFailed = FALSE
    /\ suiteSaved = [ID |-> "", Name |-> ""]

-----------------------------------------------------------------------------
(* Native errors *)

Nil == [ctx |-> "nil", code |-> "", msg |-> <<>>, seq |-> 0]

\* strings.ToLower, word by word
ToLowerWord(w) ==
    CASE w = "Timeout"    -> "timeout"
      [] w = "Connection" -> "connection"
      [] w = "Access"     -> "access"
      [] w = "Denied"     -> "denied"
      [] w = "Rate"       -> "rate"
      [] w = "AccessDenied"   -> "accessdenied"
      [] w = "Throttling"     -> "throttling"
      [] w = "SlowDown"       -> "slowdown"
      [] w = "InternalError"  -> "internalerror"
      [] w = "RequestTimeout" -> "requesttimeout"
      [] OTHER -> w

ToLower(s) == [i \in DOMAIN s |-> ToLowerWord(s[i])]

\* strings.Contains on word sequences: sub occurs contiguously in s
Contains(s, sub) ==
    \E i \in 0..(Len(s) - Len(sub)) :
        \A j \in 1..Len(sub) : s[i + j] = sub[j]

\* err.Error(): a smithy API error prints "api error <Code>: <message>"
ErrorString(err) ==
    IF err.code # "" THEN <<"api", "error", err.code>> \o err.msg ELSE err.msg

\* The errors an operation may return (seq is filled in at the call)
NativeErrors ==
    { [ctx |-> "canceled", code |-> "", msg |-> <<"context", "canceled">>],
      [ctx |-> "deadline", code |-> "", msg |-> <<"request", "Timeout">>],
      [ctx |-> "none", code |-> "Throttling", msg |-> <<"Rate", "exceeded">>],
      [ctx |-> "none", code |-> "SlowDown", msg |-> <<"reduce", "rate">>],
      [ctx |-> "none", code |-> "InternalError", msg |-> <<"try", "again">>],
      [ctx |-> "none", code |-> "AccessDenied", msg |-> <<"Access", "Denied">>],
      [ctx |-> "none", code |-> "AccessDenied", msg |-> <<"Access", "Timeout">>],
      [ctx |-> "none", code |-> "", msg |-> <<"Connection", "reset", "by", "peer">>],
      [ctx |-> "none", code |-> "", msg |-> <<"boom">>] }

WithSeq(e, n) == [ctx |-> e.ctx, code |-> e.code, msg |-> e.msg, seq |-> n]

\* ctx.Err()
CtxErr(kind) ==
    [ctx |-> kind, code |-> "",
     msg |-> IF kind = "canceled" THEN <<"context", "canceled">>
             ELSE <<"context", "deadline", "exceeded">>,
     seq |-> 0]

\* the structured switch on ae.ErrorCode(); "SlowDown" is in the S3 copy only
RetryableCodes(s) ==
    {"Throttling", "ThrottlingException", "RequestLimitExceeded",
     "InternalError", "InternalFailure", "ServiceUnavailable",
     "RequestTimeout", "RequestTimeoutException"}
    \cup (IF s = "storage" THEN {"SlowDown"} ELSE {})

transientMessages ==
    { <<"connection", "reset">>, <<"connection", "refused">>, <<"timeout">>,
      <<"temporary", "failure">>, <<"service", "unavailable">>,
      <<"internal", "error">> }

IsRetryableNoCtxCheck(s, err) ==
    IF err.ctx = "nil" THEN FALSE
    ELSE IF err.code \in RetryableCodes(s) THEN TRUE
    ELSE \E m \in transientMessages : Contains(ToLower(ErrorString(err)), m)

\* isRetryableS3Error / isRetryableRDSError / isRetryableAWSError
isRetryableError(s, err) ==
    IF err.ctx = "nil" THEN FALSE
    ELSE IF err.ctx \in {"canceled", "deadline"} THEN FALSE
    ELSE IF err.code \in RetryableCodes(s) THEN TRUE
    ELSE \E m \in transientMessages : Contains(ToLower(ErrorString(err)), m)

\* wrapS3Error: the ErrorCode of the CloudError a storage method returns for
\* the error retryWithBackoff handed it
wrapS3Error(err) ==
    IF err.ctx = "nil" THEN "nil"
    ELSE IF err.ctx = "canceled" THEN "ErrNetworkTimeout"
    ELSE IF err.ctx = "deadline" THEN "ErrNetworkTimeout"
    ELSE IF err.code = "" THEN "ErrProviderError"
    ELSE CASE err.code = "AccessDenied" -> "ErrAuthorization"
           [] err.code \in {"InvalidAccessKeyId", "SignatureDoesNotMatch",
                            "TokenRefreshRequired"} -> "ErrAuthentication"
           [] err.code \in {"NoSuchBucket", "NoSuchKey"} -> "ErrResourceNotFound"
           [] err.code \in {"BucketAlreadyExists", "BucketAlreadyOwnedByYou"} ->
                "ErrResourceConflict"
           [] err.code \in {"InvalidBucketName", "EntityTooLarge",
                            "InvalidStorageClass"} -> "ErrInvalidConfig"
           [] err.code \in {"SlowDown", "RequestLimitExceeded"} -> "ErrRateLimit"
           [] OTHER -> "ErrProviderError"

\* wrapRDSError: the ErrorCode of the CloudError a database method returns
wrapRDSError(err) ==
    IF err.ctx = "nil" THEN "nil"
    ELSE IF err.ctx = "canceled" THEN "ErrNetworkTimeout"
    ELSE IF err.ctx = "deadline" THEN "ErrNetworkTimeout"
    ELSE IF err.code = "" THEN "ErrProviderError"
    ELSE CASE err.code \in {"AccessDenied", "UnauthorizedOperation"} ->
                "ErrAuthorization"
           [] err.code \in {"InvalidUserID.NotFound", "SignatureDoesNotMatch",
                            "TokenRefreshRequired"} -> "ErrAuthentication"
           [] err.code = "DBInstanceNotFoundFault" -> "ErrResourceNotFound"
           [] err.code \in {"DBInstanceAlreadyExistsFault",
                            "InsufficientDBInstanceCapacity",
                            "DBInstanceLimitExceeded"} -> "ErrResourceConflict"
           [] err.code \in {"InvalidDBInstanceClass", "InvalidEngine",
                            "InvalidParameterValue", "DBSubnetGroupNotFoundFault",
                            "InvalidVPCNetworkStateFault"} -> "ErrInvalidConfig"
           [] err.code \in {"Throttling", "RequestLimitExceeded"} -> "ErrRateLimit"
           [] OTHER -> "ErrProviderError"

\* wrapAWSError: the ErrorCode of the CloudError a compute method returns
wrapAWSError(err) ==
    IF err.ctx = "nil" THEN "nil"
    ELSE IF err.ctx = "canceled" THEN "ErrNetworkTimeout"
    ELSE IF err.ctx = "deadline" THEN "ErrNetworkTimeout"
    ELSE IF err.code = "" THEN "ErrProviderError"
    ELSE CASE err.code \in {"UnauthorizedOperation", "AccessDenied"} ->
                "ErrAuthorization"
           [] err.code \in {"AuthFailure", "InvalidUserID.NotFound",
                            "SignatureDoesNotMatch"} -> "ErrAuthentication"
           [] err.code = "InvalidInstanceID.NotFound" -> "ErrResourceNotFound"
           [] err.code \in {"InvalidAMIID.NotFound", "InvalidInstanceType",
                            "InvalidKeyPair.NotFound"} -> "ErrInvalidConfig"
           [] err.code \in {"Throttling", "RequestLimitExceeded"} -> "ErrRateLimit"
           [] err.code \in {"InsufficientInstanceCapacity",
                            "InstanceLimitExceeded"} -> "ErrResourceConflict"
           [] OTHER -> "ErrProviderError"

\* the wrapper of the package whose retryWithBackoff runs
wrapError(s, err) ==
    CASE s = "storage"  -> wrapS3Error(err)
      [] s = "database" -> wrapRDSError(err)
      [] s = "compute"  -> wrapAWSError(err)

-----------------------------------------------------------------------------
(* retryWithBackoff *)

DefaultRetryConfig ==
    [MaxAttempts |-> 3, InitialDelay |-> 100, MaxDelay |-> 5000,
     BackoffFactor |-> 2]

\* (InitialDelay, MaxDelay, BackoffFactor) of the policies explored
DelayParams == { <<100, 5000, 2>>, <<0, 5000, 2>>, <<100, 250, 3>> }

Configs ==
    { [MaxAttempts |-> n, InitialDelay |-> p[1], MaxDelay |-> p[2],
       BackoffFactor |-> p[3]] : n \in 0..MaxAttemptsBound, p \in DelayParams }

NextDelayNoCap(d, cfg) == d * cfg.BackoffFactor

\* delay = time.Duration(float64(delay) * BackoffFactor), capped at MaxDelay
NextDelay(d, cfg) ==
    LET m == d * cfg.BackoffFactor
    IN  IF m > cfg.MaxDelay THEN cfg.MaxDelay ELSE m

LoopCondOffByOne(a, cfg) == a < cfg.MaxAttempts

\* the for condition: attempt <= config.MaxAttempts
LoopCond(a, cfg) == a <= cfg.MaxAttempts

\* the cases of the select that are ready when it is polled
ReadyCases(done, d) ==
    (IF done # "no" THEN {"ctx"} ELSE {}) \cup (IF d <= 0 THEN {"timer"} ELSE {})

InitRetry ==
    /\ svc \in {"storage", "database", "compute"}
    /\ config \in Configs
    /\ rpc = "loop"
    /\ attempt = 1
    /\ delay = config.InitialDelay
    /\ lastErr = Nil
    /\ ret = Nil
    /\ ctxDone = "no"
    /\ calls = 0
    /\ sleeps = <<>>
    /\ allRetryable = TRUE
    /\ via = "none"
    /\ cancelCalls = -1
    /\ New
    /\ SdkIdle

\* operation() is invoked
Invoke ==
    /\ rpc' = "call"
    /\ calls' = calls + 1

\* attempt 1: no select
FirstAttempt ==
    /\ rpc = "loop"
    /\ LoopCond(attempt, config)
    /\ attempt = 1
    /\ Invoke
    /\ UNCHANGED <<varsSdk, varsSim, svc, config, attempt, delay, lastErr, ret, ctxDone, sleeps,
                   allRetryable, via, cancelCalls>>

\* attempt > 1: select { case <-ctx.Done(): ...; case <-time.After(delay): }
\* Go picks among the ready cases at random; with none ready the goroutine parks.
SelectPoll ==
    /\ rpc = "loop"
    /\ LoopCond(attempt, config)
    /\ attempt > 1
    /\ IF ReadyCases(ctxDone, delay) = {}
         THEN /\ rpc' = "parked"
              /\ UNCHANGED <<ret, via, sleeps, calls>>
         ELSE \E c \in ReadyCases(ctxDone, delay) :
                IF c = "ctx"
                  THEN /\ rpc' = "done"
                       /\ ret' = CtxErr(ctxDone)
                       /\ via' = "ctx"
                       /\ UNCHANGED <<sleeps, calls>>
                  ELSE /\ sleeps' = Append(sleeps, delay)
                       /\ Invoke
                       /\ UNCHANGED <<ret, via>>
    /\ UNCHANGED <<varsSdk, varsSim, svc, config, attempt, delay, lastErr, ctxDone, allRetryable,
                   cancelCalls>>

\* the timer of time.After(delay) fires while the goroutine is parked
TimerFires ==
    /\ rpc = "parked"
    /\ sleeps' = Append(sleeps, delay)
    /\ Invoke
    /\ UNCHANGED <<varsSdk, varsSim, svc, config, attempt, delay, lastErr, ret, ctxDone,
                   allRetryable, via, cancelCalls>>

\* the caller cancels ctx (or its deadline passes); a parked select wakes on
\* ctx.Done() and returns ctx.Err()
Cancel ==
    /\ ctxDone = "no"
    /\ rpc # "done"
    /\ \E kind \in {"canceled", "deadline"} :
        /\ ctxDone' = kind
        /\ IF rpc = "parked"
             THEN /\ rpc' = "done"
                  /\ ret' = CtxErr(kind)
                  /\ via' = "ctx"
             ELSE UNCHANGED <<rpc, ret, via>>
    /\ cancelCalls' = IF rpc = "parked" \/ (rpc = "loop" /\ attempt > 1 /\ LoopCond(attempt, config))
                        THEN calls ELSE cancelCalls
    /\ UNCHANGED <<varsSdk, varsSim, svc, config, attempt, delay, lastErr, calls, sleeps,
                   allRetryable>>

\* operation() returns nil
OperationSucceeds ==
    /\ rpc = "call"
    /\ rpc' = "done"
    /\ ret' = Nil
    /\ via' = "success"
    /\ allRetryable' = FALSE
    /\ UNCHANGED <<varsSdk, varsSim, svc, config, attempt, delay, lastErr, ctxDone, calls, sleeps,
                   cancelCalls>>

\* OperationFails without the "if !isRetryable { return err }"
OperationFailsNoClassify ==
    /\ rpc = "call"
    /\ \E e \in NativeErrors :
        LET err == WithSeq(e, calls) IN
        /\ lastErr' = err
        /\ allRetryable' = (allRetryable /\ isRetryableError(svc, err))
        /\ delay' = IF attempt < config.MaxAttempts
                      THEN NextDelay(delay, config) ELSE delay
        /\ attempt' = attempt + 1
        /\ rpc' = "loop"
        /\ UNCHANGED <<ret, via>>
    /\ UNCHANGED <<varsSdk, varsSim, svc, config, ctxDone, calls, sleeps, cancelCalls>>

\* operation() returns err: lines 55-67 and attempt++
OperationFails ==
    /\ rpc = "call"
    /\ \E e \in NativeErrors :
        LET err == WithSeq(e, calls) IN
        /\ lastErr' = err
        /\ allRetryable' = (allRetryable /\ isRetryableError(svc, err))
        /\ IF ~isRetryableError(svc, err)
             THEN /\ rpc' = "done"
                  /\ ret' = err
                  /\ via' = "nonretryable"
                  /\ UNCHANGED <<attempt, delay>>
             ELSE /\ delay' = IF attempt < config.MaxAttempts
                                THEN NextDelay(delay, config) ELSE delay
                  /\ attempt' = attempt + 1
                  /\ rpc' = "loop"
                  /\ UNCHANGED <<ret, via>>
    /\ UNCHANGED <<varsSdk, varsSim, svc, config, ctxDone, calls, sleeps, cancelCalls>>

\* the loop ends: return lastErr
LoopExit ==
    /\ rpc = "loop"
    /\ ~LoopCond(attempt, config)
    /\ rpc' = "done"
    /\ ret' = lastErr
    /\ via' = "exhausted"
    /\ UNCHANGED <<varsSdk, varsSim, svc, config, attempt, delay, lastErr, ctxDone, calls, sleeps,
                   allRetryable, cancelCalls>>

NextRetry ==
    \/ FirstAttempt
    \/ SelectPoll
    \/ TimerFires
    \/ Cancel
    \/ OperationSucceeds
    \/ OperationFails
    \/ LoopExit

SpecRetry == InitRetry /\ [][NextRetry]_<<varsRetry, varsSim, varsSdk>>

-----------------------------------------------------------------------------
(* MockProvider: configuration (before any service call) *)

VMStates == {"pending", "running", "stopped", "terminated"}

\* the *services.VM / *services.DBInstance stored at address a
Deref(a) == heap[a]

\* WithVMResponse("cfg", &services.VM{ID: "i-cfg", Name: "cfg", State: s})
WithVMResponse ==
    /\ ~started /\ setupLeft > 0
    /\ "cfg" \notin DOMAIN vmResponses
    /\ \E s \in VMStates :
        /\ heap' = Append(heap, [ID |-> "i-cfg", Name |-> "cfg", State |-> s])
        /\ vmResponses' = MapPut(vmResponses, "cfg", Len(heap) + 1)
    /\ setupLeft' = setupLeft - 1
    /\ UNCHANGED <<varsSdk, varsRetry, dbResponses, errors, delays, vmState, bucketState,
                   dbState, mu, operations, callCounts, lastCallArgs, pc, cur,
                   res, tmp, now, started, crashed, callsLeft, completed>>

\* WithDBResponse("dcfg", &services.DBInstance{ID: "db-cfg", Name: "dcfg", ...})
WithDBResponse ==
    /\ ~started /\ setupLeft > 0
    /\ "dcfg" \notin DOMAIN dbResponses
    /\ heap' = Append(heap, [ID |-> "db-cfg", Name |-> "dcfg", State |-> "available"])
    /\ dbResponses' = MapPut(dbResponses, "dcfg", Len(heap) + 1)
    /\ setupLeft' = setupLeft - 1
    /\ UNCHANGED <<varsSdk, varsRetry, vmResponses, errors, delays, vmState, bucketState,
                   dbState, mu, operations, callCounts, lastCallArgs, pc, cur,
                   res, tmp, now, started, crashed, callsLeft, completed>>

\* WithError(operation, err)
WithError ==
    /\ ~started /\ setupLeft > 0
    /\ \E m \in {"CreateVM", "StopVM", "PutObject"} :
        /\ m \notin DOMAIN errors
        /\ errors' = MapPut(errors, m, "ErrAuthentication")
    /\ setupLeft' = setupLeft - 1
    /\ UNCHANGED <<varsSdk, varsRetry, vmResponses, dbResponses, delays, heap, vmState,
                   bucketState, dbState, mu, operations, callCounts,
                   lastCallArgs, pc, cur, res, tmp, now, started, crashed,
                   callsLeft, completed>>

\* WithDelay(operation, delay)
WithDelay ==
    /\ ~started /\ setupLeft > 0
    /\ \E m \in {"CreateVM", "ListVMs"} :
        /\ m \notin delays
        /\ delays' = delays \cup {m}
    /\ setupLeft' = setupLeft - 1
    /\ UNCHANGED <<varsSdk, varsRetry, vmResponses, dbResponses, errors, heap, vmState,
                   bucketState, dbState, mu, operations, callCounts,
                   lastCallArgs, pc, cur, res, tmp, now, started, crashed,
                   callsLeft, completed>>

-----------------------------------------------------------------------------
(* MockProvider: the entry of every service method *)

\* the calls a goroutine may make in the current state
CallChoices ==
    {[method |-> "CreateVM", args |-> <<n>>] : n \in {"x", "cfg"}}
    \cup {[method |-> m, args |-> <<id>>] :
            m \in {"GetVM", "DeleteVM", "StartVM", "StopVM"},
            id \in DOMAIN vmState \cup {"i-none"}}
    \cup {[method |-> "ListVMs", args |-> <<>>]}
    \cup {[method |-> "CreateBucket", args |-> <<"b">>]}
    \cup {[method |-> "PutObject", args |-> <<"b", "k", d>>] :
            d \in {"hello", "unreadable"}}
    \cup {[method |-> "CreateDB", args |-> <<n>>] : n \in {"d", "dcfg"}}

\* the entry without checkError
AfterDelayNoCheck(p, call) ==
    /\ pc' = [pc EXCEPT ![p] = "logic"]
    /\ res' = [res EXCEPT ![p] = NoRes]

\* checkError(operation), then the position the call continues at
AfterDelay(p, call) ==
    IF call.method \in DOMAIN errors
      THEN /\ pc' = [pc EXCEPT ![p] = "record"]
           /\ res' = [res EXCEPT ![p] = [result |-> {}, err |-> errors[call.method]]]
      ELSE /\ pc' = [pc EXCEPT ![p] = "logic"]
           /\ res' = [res EXCEPT ![p] = NoRes]

\* CallFrom with applyDelay sleeping under m.mu
CallFromLockedSleep(p, choices) ==
    /\ pc[p] = "idle" /\ callsLeft > 0 /\ ~crashed
    /\ \E call \in choices :
        /\ cur' = [cur EXCEPT ![p] = call]
        /\ IF call.method \in delays
             THEN /\ mu = 0
                  /\ mu' = p
                  /\ pc' = [pc EXCEPT ![p] = "sleep"]
                  /\ res' = [res EXCEPT ![p] = NoRes]
             ELSE /\ mu' = mu
                  /\ AfterDelay(p, call)
    /\ callsLeft' = callsLeft - 1
    /\ started' = TRUE
    /\ UNCHANGED <<varsSdk, varsRetry, vmResponses, dbResponses, errors, delays, heap,
                   vmState, bucketState, dbState, operations, callCounts,
                   lastCallArgs, tmp, now, crashed, setupLeft, completed>>

\* a goroutine calls a service method, one of choices: applyDelay(operation)
\* starts to sleep when a delay is configured, else the call goes on to
\* checkError
CallFrom(p, choices) ==
    /\ pc[p] = "idle" /\ callsLeft > 0 /\ ~crashed
    /\ \E call \in choices :
        /\ cur' = [cur EXCEPT ![p] = call]
        /\ IF call.method \in delays
             THEN /\ pc' = [pc EXCEPT ![p] = "sleep"]
                  /\ res' = [res EXCEPT ![p] = NoRes]
             ELSE AfterDelay(p, call)
    /\ callsLeft' = callsLeft - 1
    /\ started' = TRUE
    /\ UNCHANGED <<varsSdk, varsRetry, vmResponses, dbResponses, errors, delays, heap,
                   vmState, bucketState, dbState, mu, operations, callCounts,
                   lastCallArgs, tmp, now, crashed, setupLeft, completed>>

Call(p) == CallFrom(p, CallChoices)

\* time.Sleep(delay) returns
Wake(p) ==
    /\ pc[p] = "sleep" /\ ~crashed
    /\ AfterDelay(p, cur[p])
    /\ UNCHANGED <<varsSdk, varsRetry, vmResponses, dbResponses, errors, delays, heap,
                   vmState, bucketState, dbState, mu, operations, callCounts,
                   lastCallArgs, cur, tmp, now, started, crashed, callsLeft,
                   setupLeft, completed>>

-----------------------------------------------------------------------------
(* MockProvider: recordOperation *)

LockAlwaysAvailable(m) == TRUE

\* m.mu.Lock() can proceed
LockAvailable(m) == m = 0

RecordAppendNoLog(p) ==
    /\ pc[p] = "record" /\ ~crashed
    /\ LockAvailable(mu)
    /\ mu' = p
    /\ operations' = operations
    /\ tmp' = [tmp EXCEPT ![p] = callCounts[cur[p].method]]
    /\ pc' = [pc EXCEPT ![p] = "locked"]
    /\ UNCHANGED <<varsSdk, varsRetry, vmResponses, dbResponses, errors, delays, heap,
                   vmState, bucketState, dbState, callCounts, lastCallArgs,
                   cur, res, now, started, crashed, callsLeft, setupLeft,
                   completed>>

\* m.mu.Lock(); operations = append(operations, operation); the read of
\* callCounts[method]++
RecordAppend(p) ==
    /\ pc[p] = "record" /\ ~crashed
    /\ LockAvailable(mu)
    /\ mu' = p
    /\ operations' = Append(operations,
                            [Method |-> cur[p].method, Args |-> cur[p].args,
                             Result |-> res[p].result, Error |-> res[p].err])
    /\ tmp' = [tmp EXCEPT ![p] = callCounts[cur[p].method]]
    /\ pc' = [pc EXCEPT ![p] = "locked"]
    /\ UNCHANGED <<varsSdk, varsRetry, vmResponses, dbResponses, errors, delays, heap,
                   vmState, bucketState, dbState, callCounts, lastCallArgs,
                   cur, res, now, started, crashed, callsLeft, setupLeft,
                   completed>>

\* the write of callCounts[method]++; lastCallArgs[method] = args;
\* m.mu.Unlock(); the service method returns
RecordReturn(p) ==
    /\ pc[p] = "locked" /\ ~crashed
    /\ callCounts' = [callCounts EXCEPT ![cur[p].method] = tmp[p] + 1]
    /\ lastCallArgs' = MapPut(lastCallArgs, cur[p].method, cur[p].args)
    /\ mu' = 0
    /\ pc' = [pc EXCEPT ![p] = "idle"]
    /\ completed' = [completed EXCEPT ![cur[p].method] = @ + 1]
    /\ tmp' = [tmp EXCEPT ![p] = 0]
    /\ UNCHANGED <<varsSdk, varsRetry, vmResponses, dbResponses, errors, delays, heap,
                   vmState, bucketState, dbState, operations, cur, res,
                   now, started, crashed, callsLeft, setupLeft>>

\* CallCount(operation): RLock, read, RUnlock
CallCount(m) == callCounts[m]

-----------------------------------------------------------------------------
(* MockProvider: the lifecycle logic of each service method.  It runs        *)
(* between checkError and recordOperation, without m.mu.                     *)

\* the readings time.Now() may give: the clock does not run backwards, and
\* may not have advanced since it was last read
ClockReadings == now..MaxClock

\* generateVMID(): fmt.Sprintf("i-%016x", time.Now().UnixNano()), at reading t
generateVMID(t) == "i-" \o ToString(t)

\* the logic of goroutine p's call ends with result r and error e
Returns(p, r, e) ==
    /\ pc' = [pc EXCEPT ![p] = "record"]
    /\ res' = [res EXCEPT ![p] = [result |-> r, err |-> e]]

InLogic(p, m) == pc[p] = "logic" /\ cur[p].method = m /\ ~crashed

CreateVM(p) ==
    /\ InLogic(p, "CreateVM")
    /\ LET name == cur[p].args[1] IN
        IF name \in DOMAIN vmResponses
          THEN LET a == vmResponses[name] IN
               /\ vmState' = MapPut(vmState, Deref(a).ID, a)
               /\ heap' = heap
               /\ now' = now
               /\ Returns(p, {a}, "nil")
          ELSE \E t \in ClockReadings :
               LET a == Len(heap) + 1
                   vm == [ID |-> generateVMID(t), Name |-> name, State |-> "running"]
               IN  /\ now' = t
                   /\ heap' = Append(heap, vm)
                   /\ vmState' = MapPut(vmState, vm.ID, a)
                   /\ Returns(p, {a}, "nil")
    /\ UNCHANGED <<varsSdk, varsRetry, vmResponses, dbResponses, errors, delays,
                   bucketState, dbState, mu, operations, callCounts,
                   lastCallArgs, cur, tmp, started, crashed, callsLeft,
                   setupLeft, completed>>

\* GetVM that finds nothing
GetVMNeverFinds(p) ==
    /\ InLogic(p, "GetVM")
    /\ Returns(p, {}, "ErrResourceNotFound")
    /\ UNCHANGED <<varsSdk, varsRetry, vmResponses, dbResponses, errors, delays, heap,
                   vmState, bucketState, dbState, mu, operations, callCounts,
                   lastCallArgs, cur, tmp, now, started, crashed, callsLeft,
                   setupLeft, completed>>

GetVM(p) ==
    /\ InLogic(p, "GetVM")
    /\ LET id == cur[p].args[1] IN
        IF id \in DOMAIN vmState
          THEN Returns(p, {vmState[id]}, "nil")
          ELSE Returns(p, {}, "ErrResourceNotFound")
    /\ UNCHANGED <<varsSdk, varsRetry, vmResponses, dbResponses, errors, delays, heap,
                   vmState, bucketState, dbState, mu, operations, callCounts,
                   lastCallArgs, cur, tmp, now, started, crashed, callsLeft,
                   setupLeft, completed>>

ListVMs(p) ==
    /\ InLogic(p, "ListVMs")
    /\ Returns(p, {vmState[id] : id \in DOMAIN vmState}, "nil")
    /\ UNCHANGED <<varsSdk, varsRetry, vmResponses, dbResponses, errors, delays, heap,
                   vmState, bucketState, dbState, mu, operations, callCounts,
                   lastCallArgs, cur, tmp, now, started, crashed, callsLeft,
                   setupLeft, completed>>

DeleteVM(p) ==
    /\ InLogic(p, "DeleteVM")
    /\ LET id == cur[p].args[1] IN
        IF id \notin DOMAIN vmState
          THEN /\ Returns(p, {}, "ErrResourceNotFound")
               /\ vmState' = vmState
          ELSE /\ vmState' = MapDelete(vmState, id)
               /\ Returns(p, {}, "nil")
    /\ UNCHANGED <<varsSdk, varsRetry, vmResponses, dbResponses, errors, delays, heap,
                   bucketState, dbState, mu, operations, callCounts,
                   lastCallArgs, cur, tmp, now, started, crashed, callsLeft,
                   setupLeft, completed>>

\* StartVM without the "already running" check
StartVMNoCheck(p) ==
    /\ InLogic(p, "StartVM")
    /\ LET id == cur[p].args[1] IN
        IF id \notin DOMAIN vmState
          THEN /\ Returns(p, {}, "ErrResourceNotFound")
               /\ heap' = heap
          ELSE /\ heap' = [heap EXCEPT ![vmState[id]].State = "running"]
               /\ Returns(p, {}, "nil")
    /\ UNCHANGED <<varsSdk, varsRetry, vmResponses, dbResponses, errors, delays,
                   vmState, bucketState, dbState, mu, operations, callCounts,
                   lastCallArgs, cur, tmp, now, started, crashed, callsLeft,
                   setupLeft, completed>>

StartVM(p) ==
    /\ InLogic(p, "StartVM")
    /\ LET id == cur[p].args[1] IN
        IF id \notin DOMAIN vmState
          THEN /\ Returns(p, {}, "ErrResourceNotFound")
               /\ heap' = heap
          ELSE IF Deref(vmState[id]).State = "running"
          THEN /\ Returns(p, {}, "ErrInvalidConfig")
               /\ heap' = heap
          ELSE /\ heap' = [heap EXCEPT ![vmState[id]].State = "running"]
               /\ Returns(p, {}, "nil")
    /\ UNCHANGED <<varsSdk, varsRetry, vmResponses, dbResponses, errors, delays,
                   vmState, bucketState, dbState, mu, operations, callCounts,
                   lastCallArgs, cur, tmp, now, started, crashed, callsLeft,
                   setupLeft, completed>>

StopVM(p) ==
    /\ InLogic(p, "StopVM")
    /\ LET id == cur[p].args[1] IN
        IF id \notin DOMAIN vmState
          THEN /\ Returns(p, {}, "ErrResourceNotFound")
               /\ heap' = heap
          ELSE IF Deref(vmState[id]).State = "stopped"
          THEN /\ Returns(p, {}, "ErrInvalidConfig")
               /\ heap' = heap
          ELSE /\ heap' = [heap EXCEPT ![vmState[id]].State = "stopped"]
               /\ Returns(p, {}, "nil")
    /\ UNCHANGED <<varsSdk, varsRetry, vmResponses, dbResponses, errors, delays,
                   vmState, bucketState, dbState, mu, operations, callCounts,
                   lastCallArgs, cur, tmp, now, started, crashed, callsLeft,
                   setupLeft, completed>>

CreateBucket(p) ==
    /\ InLogic(p, "CreateBucket")
    /\ LET name == cur[p].args[1] IN
        IF name \in DOMAIN bucketState
          THEN /\ Returns(p, {}, "ErrResourceConflict")
               /\ bucketState' = bucketState
          ELSE /\ bucketState' = MapPut(bucketState, name,
                                        [Name |-> name, Objects |-> EmptyMap])
               /\ Returns(p, {}, "nil")
    /\ UNCHANGED <<varsSdk, varsRetry, vmResponses, dbResponses, errors, delays, heap,
                   vmState, dbState, mu, operations, callCounts, lastCallArgs,
                   cur, tmp, now, started, crashed, callsLeft, setupLeft,
                   completed>>

\* io.ReadAll(data): the bytes read, or the reader's error
ReadAll(data) ==
    IF data = "unreadable" THEN [bytes |-> "", err |-> "ErrRead"]
    ELSE [bytes |-> data, err |-> "nil"]

\* io.NopCloser(strings.NewReader(string(data)))
NewReader(bytes) == [unread |-> bytes]

\* PutObject that does not replace an object already stored under the key
PutObjectKeepsOld(p) ==
    /\ InLogic(p, "PutObject")
    /\ LET bucket == cur[p].args[1]
           key == cur[p].args[2]
           data == cur[p].args[3]
       IN  IF bucket \notin DOMAIN bucketState
             THEN /\ Returns(p, {}, "ErrResourceNotFound")
                  /\ bucketState' = bucketState
             ELSE IF ReadAll(data).err # "nil"
             THEN /\ Returns(p, {}, ReadAll(data).err)
                  /\ bucketState' = bucketState
             ELSE /\ bucketState' =
                       [bucketState EXCEPT ![bucket].Objects =
                           IF key \in DOMAIN @ THEN @
                           ELSE MapPut(@, key, ReadAll(data).bytes)]
                  /\ Returns(p, {}, "nil")
    /\ UNCHANGED <<varsSdk, varsRetry, vmResponses, dbResponses, errors, delays, heap,
                   vmState, dbState, mu, operations, callCounts, lastCallArgs,
                   cur, tmp, now, started, crashed, callsLeft, setupLeft,
                   completed>>

PutObject(p) ==
    /\ InLogic(p, "PutObject")
    /\ LET bucket == cur[p].args[1]
           key == cur[p].args[2]
           data == cur[p].args[3]
       IN  IF bucket \notin DOMAIN bucketState
             THEN /\ Returns(p, {}, "ErrResourceNotFound")
                  /\ bucketState' = bucketState
             ELSE IF ReadAll(data).err # "nil"
             THEN /\ Returns(p, {}, ReadAll(data).err)
                  /\ bucketState' = bucketState
             ELSE /\ bucketState' =
                       [bucketState EXCEPT ![bucket].Objects = MapPut(@, key, ReadAll(data).bytes)]
                  /\ Returns(p, {}, "nil")
    /\ UNCHANGED <<varsSdk, varsRetry, vmResponses, dbResponses, errors, delays, heap,
                   vmState, dbState, mu, operations, callCounts, lastCallArgs,
                   cur, tmp, now, started, crashed, callsLeft, setupLeft,
                   completed>>

\* ListBuckets that finds no bucket
ListBucketsEmpty(p) ==
    /\ InLogic(p, "ListBuckets")
    /\ Returns(p, {}, "nil")
    /\ UNCHANGED <<varsSdk, varsRetry, vmResponses, dbResponses, errors, delays, heap,
                   vmState, bucketState, dbState, mu, operations, callCounts,
                   lastCallArgs, cur, tmp, now, started, crashed, callsLeft,
                   setupLeft, completed>>

\* ListBuckets: the names of the buckets
ListBuckets(p) ==
    /\ InLogic(p, "ListBuckets")
    /\ Returns(p, DOMAIN bucketState, "nil")
    /\ UNCHANGED <<varsSdk, varsRetry, vmResponses, dbResponses, errors, delays, heap,
                   vmState, bucketState, dbState, mu, operations, callCounts,
                   lastCallArgs, cur, tmp, now, started, crashed, callsLeft,
                   setupLeft, completed>>

\* ListObjects: a services.Object{Key, Size: int64(len(data))} per object
ListObjects(p) ==
    /\ InLogic(p, "ListObjects")
    /\ LET bucket == cur[p].args[1] IN
        IF bucket \notin DOMAIN bucketState
          THEN Returns(p, {}, "ErrResourceNotFound")
          ELSE Returns(p, {[Key |-> key,
                            Size |-> Len(bucketState[bucket].Objects[key])] :
                              key \in DOMAIN bucketState[bucket].Objects}, "nil")
    /\ UNCHANGED <<varsSdk, varsRetry, vmResponses, dbResponses, errors, delays, heap,
                   vmState, bucketState, dbState, mu, operations, callCounts,
                   lastCallArgs, cur, tmp, now, started, crashed, callsLeft,
                   setupLeft, completed>>

CreateDB(p) ==
    /\ InLogic(p, "CreateDB")
    /\ LET name == cur[p].args[1] IN
        IF name \in DOMAIN dbResponses
          THEN LET a == dbResponses[name] IN
               /\ dbState' = MapPut(dbState, Deref(a).ID, a)
               /\ heap' = heap
               /\ Returns(p, {a}, "nil")
          ELSE IF \E id \in DOMAIN dbState : Deref(dbState[id]).Name = name
          THEN /\ Returns(p, {}, "ErrResourceConflict")
               /\ UNCHANGED <<dbState, heap>>
          ELSE LET a == Len(heap) + 1
                   db == [ID |-> name, Name |-> name, State |-> "available"]
               IN  /\ heap' = Append(heap, db)
                   /\ dbState' = MapPut(dbState, db.ID, a)
                   /\ Returns(p, {a}, "nil")
    /\ UNCHANGED <<varsSdk, varsRetry, vmResponses, dbResponses, errors, delays,
                   vmState, bucketState, mu, operations, callCounts,
                   lastCallArgs, cur, tmp, now, started, crashed, callsLeft,
                   setupLeft, completed>>

GetObject(p) ==
    /\ InLogic(p, "GetObject")
    /\ LET bucket == cur[p].args[1]
           key == cur[p].args[2]
       IN  IF bucket \notin DOMAIN bucketState
             THEN Returns(p, {}, "ErrResourceNotFound")
             ELSE IF key \notin DOMAIN bucketState[bucket].Objects
             THEN Returns(p, {}, "ErrResourceNotFound")
             ELSE Returns(p, {NewReader(bucketState[bucket].Objects[key])}, "nil")
    /\ UNCHANGED <<varsSdk, varsRetry, vmResponses, dbResponses, errors, delays, heap,
                   vmState, bucketState, dbState, mu, operations, callCounts,
                   lastCallArgs, cur, tmp, now, started, crashed, callsLeft,
                   setupLeft, completed>>

DeleteObject(p) ==
    /\ InLogic(p, "DeleteObject")
    /\ LET bucket == cur[p].args[1]
           key == cur[p].args[2]
       IN  IF bucket \notin DOMAIN bucketState
             THEN /\ Returns(p, {}, "ErrResourceNotFound")
                  /\ bucketState' = bucketState
             ELSE IF key \notin DOMAIN bucketState[bucket].Objects
             THEN /\ Returns(p, {}, "ErrResourceNotFound")
                  /\ bucketState' = bucketState
             ELSE /\ bucketState' =
                       [bucketState EXCEPT ![bucket].Objects = MapDelete(@, key)]
                  /\ Returns(p, {}, "nil")
    /\ UNCHANGED <<varsSdk, varsRetry, vmResponses, dbResponses, errors, delays, heap,
                   vmState, dbState, mu, operations, callCounts, lastCallArgs,
                   cur, tmp, now, started, crashed, callsLeft, setupLeft,
                   completed>>

\* DeleteBucket without the "bucket is not empty" check
DeleteBucketNoEmptyCheck(p) ==
    /\ InLogic(p, "DeleteBucket")
    /\ LET name == cur[p].args[1] IN
        IF name \notin DOMAIN bucketState
          THEN /\ Returns(p, {}, "ErrResourceNotFound")
               /\ bucketState' = bucketState
          ELSE /\ bucketState' = MapDelete(bucketState, name)
               /\ Returns(p, {}, "nil")
    /\ UNCHANGED <<varsSdk, varsRetry, vmResponses, dbResponses, errors, delays, heap,
                   vmState, dbState, mu, operations, callCounts, lastCallArgs,
                   cur, tmp, now, started, crashed, callsLeft, setupLeft,
                   completed>>

DeleteBucket(p) ==
    /\ InLogic(p, "DeleteBucket")
    /\ LET name == cur[p].args[1] IN
        IF name \notin DOMAIN bucketState
          THEN /\ Returns(p, {}, "ErrResourceNotFound")
               /\ bucketState' = bucketState
          ELSE IF DOMAIN bucketState[name].Objects # {}
          THEN /\ Returns(p, {}, "ErrResourceConflict")
               /\ bucketState' = bucketState
          ELSE /\ bucketState' = MapDelete(bucketState, name)
               /\ Returns(p, {}, "nil")
    /\ UNCHANGED <<varsSdk, varsRetry, vmResponses, dbResponses, errors, delays, heap,
                   vmState, dbState, mu, operations, callCounts, lastCallArgs,
                   cur, tmp, now, started, crashed, callsLeft, setupLeft,
                   completed>>

GetDB(p) ==
    /\ InLogic(p, "GetDB")
    /\ LET id == cur[p].args[1] IN
        IF id \in DOMAIN dbState
          THEN Returns(p, {dbState[id]}, "nil")
          ELSE Returns(p, {}, "ErrResourceNotFound")
    /\ UNCHANGED <<varsSdk, varsRetry, vmResponses, dbResponses, errors, delays, heap,
                   vmState, bucketState, dbState, mu, operations, callCounts,
                   lastCallArgs, cur, tmp, now, started, crashed, callsLeft,
                   setupLeft, completed>>

ListDBs(p) ==
    /\ InLogic(p, "ListDBs")
    /\ Returns(p, {dbState[id] : id \in DOMAIN dbState}, "nil")
    /\ UNCHANGED <<varsSdk, varsRetry, vmResponses, dbResponses, errors, delays, heap,
                   vmState, bucketState, dbState, mu, operations, callCounts,
                   lastCallArgs, cur, tmp, now, started, crashed, callsLeft,
                   setupLeft, completed>>

\* DeleteDB that reports success and leaves the record in the store
DeleteDBKeepsRecord(p) ==
    /\ InLogic(p, "DeleteDB")
    /\ LET id == cur[p].args[1] IN
        IF id \notin DOMAIN dbState
          THEN /\ Returns(p, {}, "ErrResourceNotFound")
               /\ dbState' = dbState
          ELSE /\ dbState' = dbState
               /\ Returns(p, {}, "nil")
    /\ UNCHANGED <<varsSdk, varsRetry, vmResponses, dbResponses, errors, delays, heap,
                   vmState, bucketState, mu, operations, callCounts,
                   lastCallArgs, cur, tmp, now, started, crashed, callsLeft,
                   setupLeft, completed>>

DeleteDB(p) ==
    /\ InLogic(p, "DeleteDB")
    /\ LET id == cur[p].args[1] IN
        IF id \notin DOMAIN dbState
          THEN /\ Returns(p, {}, "ErrResourceNotFound")
               /\ dbState' = dbState
          ELSE /\ dbState' = MapDelete(dbState, id)
               /\ Returns(p, {}, "nil")
    /\ UNCHANGED <<varsSdk, varsRetry, vmResponses, dbResponses, errors, delays, heap,
                   vmState, bucketState, mu, operations, callCounts,
                   lastCallArgs, cur, tmp, now, started, crashed, callsLeft,
                   setupLeft, completed>>

\* the maps the logic of a call reads ("r") or writes ("w")
Touches(call) ==
    CASE call.method = "CreateVM" -> {<<"vmState", "w">>}
      [] call.method \in {"GetVM", "ListVMs", "StartVM", "StopVM"} ->
            {<<"vmState", "r">>}
      [] call.method = "DeleteVM" ->
            {<<"vmState", IF call.args[1] \in DOMAIN vmState THEN "w" ELSE "r">>}
      [] call.method = "CreateBucket" ->
            {<<"bucketState",
               IF call.args[1] \in DOMAIN bucketState THEN "r" ELSE "w">>}
      [] call.method = "PutObject" ->
            {<<"bucketState", "r">>}
            \cup (IF call.args[1] \in DOMAIN bucketState /\ call.args[3] # "unreadable"
                    THEN {<<"Objects", "w">>} ELSE {})
      [] call.method = "GetObject" -> {<<"bucketState", "r">>, <<"Objects", "r">>}
      [] call.method = "ListBuckets" -> {<<"bucketState", "r">>}
      [] call.method = "ListObjects" ->
            {<<"bucketState", "r">>}
            \cup (IF call.args[1] \in DOMAIN bucketState
                    THEN {<<"Objects", "r">>} ELSE {})
      [] call.method = "DeleteObject" ->
            {<<"bucketState", "r">>}
            \cup (IF call.args[1] \in DOMAIN bucketState
                    THEN {<<"Objects",
                            IF call.args[2] \in DOMAIN bucketState[call.args[1]].Objects
                              THEN "w" ELSE "r">>}
                    ELSE {})
      [] call.method = "DeleteBucket" ->
            {<<"Objects", "r">>,
             <<"bucketState",
               IF call.args[1] \in DOMAIN bucketState
                  /\ DOMAIN bucketState[call.args[1]].Objects = {}
                 THEN "w" ELSE "r">>}
      [] call.method \in {"GetDB", "ListDBs"} -> {<<"dbState", "r">>}
      [] call.method = "DeleteDB" ->
            {<<"dbState", IF call.args[1] \in DOMAIN dbState THEN "w" ELSE "r">>}
      [] call.method = "CreateDB" ->
            {<<"dbState",
               IF call.args[1] \notin DOMAIN dbResponses
                  /\ \E id \in DOMAIN dbState : Deref(dbState[id]).Name = call.args[1]
                 THEN "r" ELSE "w">>}
      [] OTHER -> {}

\* two goroutines are in their logic at once and touch the same map, one writing
Races(p, q) ==
    /\ p # q
    /\ pc[p] = "logic" /\ pc[q] = "logic"
    /\ \E a \in Touches(cur[p]), b \in Touches(cur[q]) :
        a[1] = b[1] /\ "w" \in {a[2], b[2]}

\* unsynchronised map access: the runtime may throw "fatal error: concurrent
\* map writes" (or "concurrent map read and map write") and end the program
Crash ==
    /\ ~crashed
    /\ \E p, q \in DOMAIN pc : Races(p, q)
    /\ crashed' = TRUE
    /\ UNCHANGED <<varsSdk, varsRetry, vmResponses, dbResponses, errors, delays, heap,
                   vmState, bucketState, dbState, mu, operations, callCounts,
                   lastCallArgs, pc, cur, res, tmp, now, started, callsLeft,
                   setupLeft, completed>>

\* retryWithBackoff is not running
RetryIdle ==
    /\ svc = "storage"
    /\ config = DefaultRetryConfig
    /\ rpc = "done"
    /\ attempt = 1
    /\ delay = 0
    /\ lastErr = Nil
    /\ ret = Nil
    /\ ctxDone = "no"
    /\ calls = 0
    /\ sleeps = <<>>
    /\ allRetryable = TRUE
    /\ via = "none"
    /\ cancelCalls = -1

Init == New /\ RetryIdle /\ SdkIdle

Next ==
    \/ WithVMResponse
    \/ WithDBResponse
    \/ WithError
    \/ WithDelay
    \/ Crash
    \/ \E p \in Procs :
        \/ Call(p)
        \/ Wake(p)
        \/ CreateVM(p)
        \/ GetVM(p)
        \/ ListVMs(p)
        \/ DeleteVM(p)
        \/ StartVM(p)
        \/ StopVM(p)
        \/ CreateBucket(p)
        \/ PutObject(p)
        \/ CreateDB(p)
        \/ RecordAppend(p)
        \/ RecordReturn(p)

vars == <<varsRetry, varsSim, varsSdk>>

Spec == Init /\ [][Next]_vars

\* TestConcurrency(t, 10, ...): the goroutines started at once
NumListCallers == 10

\* TestConcurrency has started its goroutines on a fresh provider and each has
\* entered ListVMs (no delay and no error is configured, so the entry has
\* touched nothing shared)
InitList10 ==
    /\ RetryIdle
    /\ SdkIdle
    /\ vmResponses = EmptyMap
    /\ dbResponses = EmptyMap
    /\ errors = EmptyMap
    /\ delays = {}
    /\ heap = <<>>
    /\ vmState = EmptyMap
    /\ bucketState = EmptyMap
    /\ dbState = EmptyMap
    /\ mu = 0
    /\ operations = <<>>
    /\ callCounts = [m \in Methods |-> 0]
    /\ lastCallArgs = EmptyMap
    /\ pc = [p \in 1..NumListCallers |-> "logic"]
    /\ cur = [p \in 1..NumListCallers |-> [method |-> "ListVMs", args |-> <<>>]]
    /\ res = [p \in 1..NumListCallers |-> NoRes]
    /\ tmp = [p \in 1..NumListCallers |-> 0]
    /\ now = 0
    /\ started = TRUE
    /\ crashed = FALSE
    /\ callsLeft = 0
    /\ setupLeft = 0
    /\ completed = [m \in Methods |-> 0]

NextList10 ==
    \E p \in 1..NumListCallers :
        \/ ListVMs(p)
        \/ RecordAppend(p)
        \/ RecordReturn(p)

SpecList10 == InitList10 /\ [][NextList10]_vars

\* the goroutine of the single-goroutine scenarios
Solo == {1}

\* A fresh provider used by one goroutine that makes up to n calls
InitSequential(n) ==
    /\ RetryIdle
    /\ SdkIdle
    /\ vmResponses = EmptyMap
    /\ dbResponses = EmptyMap
    /\ errors = EmptyMap
    /\ delays = {}
    /\ heap = <<>>
    /\ vmState = EmptyMap
    /\ bucketState = EmptyMap
    /\ dbState = EmptyMap
    /\ mu = 0
    /\ operations = <<>>
    /\ callCounts = [m \in Methods |-> 0]
    /\ lastCallArgs = EmptyMap
    /\ pc = [p \in Solo |-> "idle"]
    /\ cur = [p \in Solo |-> NoCall]
    /\ res = [p \in Solo |-> NoRes]
    /\ tmp = [p \in Solo |-> 0]
    /\ now = 0
    /\ started = FALSE
    /\ crashed = FALSE
    /\ callsLeft = n
    /\ setupLeft = 0
    /\ completed = [m \in Methods |-> 0]

\* the calls of the storage scenario: one bucket, two keys
StorageChoices ==
    {[method |-> m, args |-> <<"b">>] : m \in {"CreateBucket", "DeleteBucket"}}
    \cup {[method |-> "PutObject", args |-> <<"b", "k", d>>] :
            d \in {"hello", "world", "unreadable"}}
    \cup {[method |-> "PutObject", args |-> <<"b", "k2", "hello">>]}
    \cup {[method |-> m, args |-> <<"b", k>>] :
            m \in {"GetObject", "DeleteObject"}, k \in {"k", "k2"}}

CallStorage(p) == CallFrom(p, StorageChoices)

InitStorage == InitSequential(MaxStorageCalls)

NextStorage ==
    \E p \in Solo :
        \/ CallStorage(p)
        \/ CreateBucket(p)
        \/ DeleteBucket(p)
        \/ PutObject(p)
        \/ GetObject(p)
        \/ DeleteObject(p)
        \/ RecordAppend(p)
        \/ RecordReturn(p)

SpecStorage == InitStorage /\ [][NextStorage]_vars

\* the ids of the resources the simulator has handed out so far
IssuedIDs == {heap[a].ID : a \in DOMAIN heap}

\* the calls of the VM and database scenario
LifecycleChoices ==
    {[method |-> "CreateVM", args |-> <<"x">>],
     [method |-> "ListVMs", args |-> <<>>],
     [method |-> "CreateDB", args |-> <<"d">>],
     [method |-> "ListDBs", args |-> <<>>]}
    \cup {[method |-> m, args |-> <<id>>] :
            m \in {"GetVM", "DeleteVM"}, id \in IssuedIDs \cup {"i-none"}}
    \cup {[method |-> m, args |-> <<id>>] :
            m \in {"GetDB", "DeleteDB"}, id \in IssuedIDs \cup {"db-none"}}

CallLifecycle(p) == CallFrom(p, LifecycleChoices)

\* the methods that hand a *services.VM / *services.DBInstance to the caller
PointerMethods == {"CreateVM", "GetVM", "ListVMs", "CreateDB", "GetDB", "ListDBs"}

\* the caller assigns to a field of a resource its last call returned:
\* vm.State = "edited"
CallerEdits(p) ==
    /\ pc[p] = "idle" /\ ~crashed
    /\ cur[p].method \in PointerMethods
    /\ res[p].err = "nil"
    /\ \E a \in res[p].result :
        /\ heap[a].State # "edited"
        /\ heap' = [heap EXCEPT ![a].State = "edited"]
    /\ UNCHANGED <<varsSdk, varsRetry, vmResponses, dbResponses, errors, delays,
                   vmState, bucketState, dbState, mu, operations, callCounts,
                   lastCallArgs, pc, cur, res, tmp, now, started, crashed,
                   callsLeft, setupLeft, completed>>

InitLifecycle == InitSequential(MaxLifecycleCalls)

NextLifecycle ==
    \E p \in Solo :
        \/ CallLifecycle(p)
        \/ CreateVM(p)
        \/ GetVM(p)
        \/ ListVMs(p)
        \/ DeleteVM(p)
        \/ CreateDB(p)
        \/ GetDB(p)
        \/ ListDBs(p)
        \/ DeleteDB(p)
        \/ CallerEdits(p)
        \/ RecordAppend(p)
        \/ RecordReturn(p)

SpecLifecycle == InitLifecycle /\ [][NextLifecycle]_vars

-----------------------------------------------------------------------------
(* MockProvider: Reset, called while service methods run *)

\* Reset(): m.mu.Lock(), then operations, callCounts and lastCallArgs are
\* replaced (readers of these take m.mu, so nobody sees them in between)
Reset(p) ==
    /\ pc[p] = "idle" /\ callsLeft > 0 /\ ~crashed
    /\ LockAvailable(mu)
    /\ mu' = p
    /\ operations' = <<>>
    /\ callCounts' = [m \in Methods |-> 0]
    /\ lastCallArgs' = EmptyMap
    /\ cur' = [cur EXCEPT ![p] = [method |-> "Reset", args |-> <<>>]]
    /\ res' = [res EXCEPT ![p] = NoRes]
    /\ pc' = [pc EXCEPT ![p] = "resetVMs"]
    /\ callsLeft' = callsLeft - 1
    /\ started' = TRUE
    /\ UNCHANGED <<varsSdk, varsRetry, vmResponses, dbResponses, errors, delays, heap,
                   vmState, bucketState, dbState, tmp, now, crashed,
                   setupLeft, completed>>

\* m.vmState = make(map[string]*services.VM)
ResetVMs(p) ==
    /\ pc[p] = "resetVMs" /\ ~crashed
    /\ vmState' = EmptyMap
    /\ pc' = [pc EXCEPT ![p] = "resetBuckets"]
    /\ UNCHANGED <<varsSdk, varsRetry, vmResponses, dbResponses, errors, delays, heap,
                   bucketState, dbState, mu, operations, callCounts,
                   lastCallArgs, cur, res, tmp, now, started, crashed,
                   callsLeft, setupLeft, completed>>

\* m.bucketState = make(map[string]*BucketState)
ResetBuckets(p) ==
    /\ pc[p] = "resetBuckets" /\ ~crashed
    /\ bucketState' = EmptyMap
    /\ pc' = [pc EXCEPT ![p] = "resetDBs"]
    /\ UNCHANGED <<varsSdk, varsRetry, vmResponses, dbResponses, errors, delays, heap,
                   vmState, dbState, mu, operations, callCounts,
                   lastCallArgs, cur, res, tmp, now, started, crashed,
                   callsLeft, setupLeft, completed>>

\* m.dbState = make(map[string]*services.DBInstance), and the deferred
\* m.mu.Unlock()
ResetDBs(p) ==
    /\ pc[p] = "resetDBs" /\ ~crashed
    /\ dbState' = EmptyMap
    /\ mu' = 0
    /\ pc' = [pc EXCEPT ![p] = "idle"]
    /\ UNCHANGED <<varsSdk, varsRetry, vmResponses, dbResponses, errors, delays, heap,
                   vmState, bucketState, operations, callCounts,
                   lastCallArgs, cur, res, tmp, now, started, crashed,
                   callsLeft, setupLeft, completed>>

\* Reset has cleared some of log, counters and state maps, and not yet all
ResetMidway == {"resetVMs", "resetBuckets", "resetDBs"}

\* the service calls of the Reset scenario
ResetChoices ==
    {[method |-> "CreateVM", args |-> <<"x">>],
     [method |-> "ListVMs", args |-> <<>>],
     [method |-> "CreateBucket", args |-> <<"b">>],
     [method |-> "CreateDB", args |-> <<"d">>]}

CallDuringReset(p) == CallFrom(p, ResetChoices)

InitReset ==
    /\ RetryIdle
    /\ SdkIdle
    /\ vmResponses = EmptyMap
    /\ dbResponses = EmptyMap
    /\ errors = EmptyMap
    /\ delays = {}
    /\ heap = <<>>
    /\ vmState = EmptyMap
    /\ bucketState = EmptyMap
    /\ dbState = EmptyMap
    /\ mu = 0
    /\ operations = <<>>
    /\ callCounts = [m \in Methods |-> 0]
    /\ lastCallArgs = EmptyMap
    /\ pc = [p \in Procs |-> "idle"]
    /\ cur = [p \in Procs |-> NoCall]
    /\ res = [p \in Procs |-> NoRes]
    /\ tmp = [p \in Procs |-> 0]
    /\ now = 0
    /\ started = FALSE
    /\ crashed = FALSE
    /\ callsLeft = MaxResetCalls
    /\ setupLeft = 0
    /\ completed = [m \in Methods |-> 0]

NextReset ==
    \/ Crash
    \/ \E p \in Procs :
        \/ CallDuringReset(p)
        \/ CreateVM(p)
        \/ ListVMs(p)
        \/ CreateBucket(p)
        \/ CreateDB(p)
        \/ RecordAppend(p)
        \/ RecordReturn(p)
        \/ Reset(p)
        \/ ResetVMs(p)
        \/ ResetBuckets(p)
        \/ ResetDBs(p)

SpecReset == InitReset /\ [][NextReset]_vars

-----------------------------------------------------------------------------
(* Claims about the mock provider, checked under Spec and SpecList10 *)

\* C5: every read and write of the VM, bucket and database state maps by a
\* service operation happens under the provider's lock, so no two concurrent
\* calls access a state map at the same time unless both only read it.
C5_StateAccessSerialized ==
    \A p, q \in DOMAIN pc : ~Races(p, q)

\* C6: 10 concurrent ListVMs calls on a provider with no VMs each return an
\* empty list without error; no counter update is lost or duplicated (the
\* count equals the number of returned calls whenever nobody is inside
\* recordOperation), and once all have returned CallCount("ListVMs") is 10.
C6_ConcurrentListVMs ==
    /\ \A p \in DOMAIN pc :
          pc[p] \in {"record", "locked", "idle"}
              => res[p] = [result |-> {}, err |-> "nil"]
    /\ mu = 0 => CallCount("ListVMs") = completed["ListVMs"]
    /\ (\A p \in DOMAIN pc : pc[p] = "idle")
          => CallCount("ListVMs") = NumListCallers

C6_Witness ==
    /\ \A p \in DOMAIN pc : pc[p] = "idle"
    /\ Cardinality(DOMAIN pc) = 10
    /\ CallCount("ListVMs") = 10
    /\ Len(operations) = 10

\* the entries of the log recorded for method m
EntriesOf(m) == {i \in DOMAIN operations : operations[i].Method = m}

\* C7: every call of a service method appends exactly one Operation before it
\* returns, whether it succeeds or fails: whenever nobody is inside
\* recordOperation, CallCount(M) equals the number of calls of M that have
\* returned and the number of log entries of M.
C7_OneRecordPerCall ==
    mu = 0 =>
        \A m \in Methods :
            /\ CallCount(m) = completed[m]
            /\ CallCount(m) = Cardinality(EntriesOf(m))

C7_Witness ==
    /\ mu = 0
    /\ completed["PutObject"] = 1 /\ completed["CreateBucket"] = 1
    /\ \E i, j \in DOMAIN operations :
        /\ operations[i].Method = "CreateBucket" /\ operations[i].Error = "nil"
        /\ operations[j].Method = "PutObject" /\ operations[j].Error # "nil"

\* a resource of the kind method m creates, named n, is in the simulator
NameTaken(m, n) ==
    CASE m = "CreateVM" ->
            \E id \in DOMAIN vmState : Deref(vmState[id]).Name = n
      [] m = "CreateBucket" -> n \in DOMAIN bucketState
      [] m = "CreateDB" ->
            \E id \in DOMAIN dbState : Deref(dbState[id]).Name = n
      [] OTHER -> FALSE

\* C8: for each resource kind, a create whose name is that of a resource of
\* the kind already present fails with ResourceConflict and leaves the
\* existing resources unchanged.
C8_DuplicateCreateConflicts ==
    [][\A p \in Procs :
        (/\ pc[p] = "logic" /\ pc'[p] = "record"
         /\ cur[p].method \in {"CreateVM", "CreateBucket", "CreateDB"}
         /\ NameTaken(cur[p].method, cur[p].args[1]))
            => /\ res'[p].err = "ErrResourceConflict"
               /\ UNCHANGED <<heap, vmState, bucketState, dbState>>]_vars

\* the VM that StartVM / StopVM of goroutine p addresses is in state s
TargetIn(p, s) ==
    /\ cur[p].args[1] \in DOMAIN vmState
    /\ Deref(vmState[cur[p].args[1]]).State = s

\* C9: StartVM on a running VM, and StopVM on a stopped VM, fail with
\* InvalidConfig and leave the VM's state (and every other VM) unchanged.
\* (A call for which an error is injected never reaches this logic.)
C9_RedundantTransitionRejected ==
    [][\A p \in Procs :
        (/\ pc[p] = "logic" /\ pc'[p] = "record"
         /\ \/ cur[p].method = "StartVM" /\ TargetIn(p, "running")
            \/ cur[p].method = "StopVM" /\ TargetIn(p, "stopped"))
            => /\ res'[p].err = "ErrInvalidConfig"
               /\ UNCHANGED <<heap, vmState>>]_vars

C9_Witness ==
    \E p \in Procs :
        /\ pc[p] = "record" /\ cur[p].method = "StartVM"
        /\ TargetIn(p, "running")
        /\ res[p].err = "ErrInvalidConfig"

C9_WitnessStop ==
    \E p \in Procs :
        /\ pc[p] = "record" /\ cur[p].method = "StopVM"
        /\ TargetIn(p, "stopped")
        /\ res[p].err = "ErrInvalidConfig"

\* the transitions of the VM lifecycle
VMEdges == { <<"pending", "running">>, <<"running", "stopped">>,
             <<"stopped", "running">>, <<"stopped", "terminated">> }

\* C10: the state of every VM changes only along Pending -> Running,
\* Running -> Stopped, Stopped -> Running, Stopped -> Terminated, and a
\* Terminated VM never changes state again.
C10_VMLifecycleEdges ==
    [][\A a \in DOMAIN heap :
        heap'[a].State # heap[a].State
            => <<heap[a].State, heap'[a].State>> \in VMEdges]_vars

\* goroutine p's logic of method m ends in this step
LogicStep(p, m) ==
    pc[p] = "logic" /\ pc'[p] = "record" /\ cur[p].method = m

\* C11: DeleteBucket on an existing bucket that holds at least one object
\* fails with ResourceConflict and leaves the bucket and its objects in
\* place; on an existing bucket with no object (left) it succeeds and removes
\* the bucket.
C11_DeleteBucketOnlyWhenEmpty ==
    [][\A p \in DOMAIN pc :
        (LogicStep(p, "DeleteBucket") /\ cur[p].args[1] \in DOMAIN bucketState)
            => IF DOMAIN bucketState[cur[p].args[1]].Objects # {}
                 THEN /\ res'[p].err = "ErrResourceConflict"
                      /\ bucketState' = bucketState
                 ELSE /\ res'[p].err = "nil"
                      /\ bucketState' = MapDelete(bucketState, cur[p].args[1])]_vars

\* the log holds an entry of method m with arguments a and error e
Logged(m, a, e) ==
    \E i \in DOMAIN operations :
        /\ operations[i].Method = m
        /\ operations[i].Args = a
        /\ operations[i].Error = e

C11_Witness ==
    /\ Logged("PutObject", <<"b", "k", "hello">>, "nil")
    /\ Logged("DeleteBucket", <<"b">>, "ErrResourceConflict")
    /\ Logged("DeleteObject", <<"b", "k">>, "nil")
    /\ pc[1] = "record" /\ cur[1].method = "DeleteBucket"
    /\ res[1].err = "nil"
    /\ "b" \notin DOMAIN bucketState

\* entry i of the log is a successful Delete of kind ("VM" or "DB") and no
\* create of that kind is logged between it and entry j
DeletedBefore(kind, i, j) ==
    /\ i < j
    /\ operations[i].Method = "Delete" \o kind
    /\ operations[i].Error = "nil"
    /\ \A k \in (i + 1)..(j - 1) : operations[k].Method # "Create" \o kind

\* C12: after DeleteVM(id) or DeleteDB(id) succeeds the record is gone: (as
\* long as nothing is created) a following Get of that id fails with
\* ResourceNotFound and a following List holds no resource of that id.
C12_DeleteRemovesRecord ==
    \A kind \in {"VM", "DB"} :
        \A i, j \in DOMAIN operations :
            DeletedBefore(kind, i, j) =>
                /\ (operations[j].Method = "Get" \o kind
                    /\ operations[j].Args = operations[i].Args)
                       => operations[j].Error = "ErrResourceNotFound"
                /\ operations[j].Method = "List" \o kind \o "s"
                       => \A a \in operations[j].Result :
                              Deref(a).ID # operations[i].Args[1]

C12_Witness ==
    /\ Len(operations) = 4
    /\ operations[1].Method = "CreateVM" /\ operations[1].Error = "nil"
    /\ operations[2].Method = "DeleteVM" /\ operations[2].Error = "nil"
    /\ operations[3].Method = "GetVM"
    /\ operations[3].Args = operations[2].Args
    /\ operations[3].Error = "ErrResourceNotFound"
    /\ operations[4].Method = "ListVMs" /\ operations[4].Result = {}

C12_WitnessDB ==
    /\ Len(operations) = 4
    /\ operations[1].Method = "CreateDB" /\ operations[1].Error = "nil"
    /\ operations[2].Method = "DeleteDB" /\ operations[2].Error = "nil"
    /\ operations[3].Method = "GetDB"
    /\ operations[3].Args = operations[2].Args
    /\ operations[3].Error = "ErrResourceNotFound"
    /\ operations[4].Method = "ListDBs" /\ operations[4].Result = {}

\* the CreateVM step of goroutine p returns a VM named as asked, in state
\* "running", stored under its id
CreatesRunning(p) ==
    /\ res'[p].err = "nil"
    /\ \E a \in DOMAIN heap' :
        /\ res'[p].result = {a}
        /\ heap'[a].Name = cur[p].args[1]
        /\ heap'[a].State = "running"
        /\ heap'[a].ID \in DOMAIN vmState'
        /\ vmState'[heap'[a].ID] = a

\* the GetVM step of goroutine p on a stored id returns the stored VM as it is
GetsStored(p) ==
    LET id == cur[p].args[1] IN
    id \in DOMAIN vmState =>
        /\ res'[p] = [result |-> {vmState[id]}, err |-> "nil"]
        /\ Deref(vmState[id]).ID = id
        /\ UNCHANGED <<heap, vmState>>

WritesBefore(b, k, j) ==
    {i \in 1..(j - 1) :
        /\ operations[i].Error = "nil"
        /\ \/ /\ operations[i].Method = "PutObject"
              /\ operations[i].Args[1] = b /\ operations[i].Args[2] = k
           \/ /\ operations[i].Method = "DeleteObject"
              /\ operations[i].Args = <<b, k>>
           \/ /\ operations[i].Method = "DeleteBucket"
              /\ operations[i].Args = <<b>>}

Latest(S) == CHOOSE i \in S : \A k \in S : k <= i

\* C14: after PutObject(bucket, k, data) succeeds, and until k is overwritten
\* or deleted, GetObject(bucket, k) succeeds and returns exactly the bytes of
\* data: a logged GetObject whose latest preceding successful write to the
\* object is a PutObject returns a reader over that PutObject's data.
C14_GetReturnsLastPut ==
    \A j \in DOMAIN operations :
        operations[j].Method = "GetObject" =>
            LET W == WritesBefore(operations[j].Args[1], operations[j].Args[2], j)
            IN  (W # {} /\ operations[Latest(W)].Method = "PutObject")
                    => /\ operations[j].Error = "nil"
                       /\ operations[j].Result =
                              {[unread |-> operations[Latest(W)].Args[3]]}

C14_Witness ==
    /\ Len(operations) = 5
    /\ operations[2].Method = "PutObject" /\ operations[2].Error = "nil"
    /\ operations[2].Args = <<"b", "k", "hello">>
    /\ operations[3].Method = "GetObject" /\ operations[3].Args = <<"b", "k">>
    /\ operations[3].Result = {[unread |-> "hello"]}
    /\ operations[4].Method = "PutObject" /\ operations[4].Error = "nil"
    /\ operations[4].Args = <<"b", "k", "world">>
    /\ operations[5].Method = "GetObject" /\ operations[5].Args = <<"b", "k">>
    /\ operations[5].Result = {[unread |-> "world"]}

\* C15: when an error is injected for method M, every call to M returns (and
\* records) exactly that error, never runs M's lifecycle logic and changes no
\* simulated resource, whatever its arguments.
C15_InjectedErrorWins ==
    [][\A p \in Procs :
        cur'[p].method \in DOMAIN errors' =>
            /\ pc'[p] # "logic"
            /\ pc'[p] # pc[p] => UNCHANGED <<heap, vmState, bucketState, dbState>>
            /\ pc'[p] \in {"record", "locked"}
                  => res'[p].err = errors'[cur'[p].method]
            /\ (pc[p] = "record" /\ pc'[p] = "locked")
                  => /\ Len(operations') = Len(operations) + 1
                     /\ operations'[Len(operations')].Method = cur[p].method
                     /\ operations'[Len(operations')].Error = errors[cur[p].method]]_vars

C15_Witness ==
    \E p \in Procs :
        /\ pc[p] = "locked" /\ cur[p].method = "StopVM"
        /\ "StopVM" \in DOMAIN errors
        /\ TargetIn(p, "running")
        /\ res[p].err = errors["StopVM"]
        /\ operations[Len(operations)].Error = errors["StopVM"]

\* what GetVM / ListVMs and GetDB / ListDBs return at present: the stored
\* resources by id
StoredVMs == [id \in DOMAIN vmState |-> Deref(vmState[id])]
StoredDBs == [id \in DOMAIN dbState |-> Deref(dbState[id])]

\* C16: the resources create, get and list return are value copies: a step of
\* the caller alone (no simulator method takes a step), such as modifying a
\* returned VM or database instance, never changes what a later Get or List
\* returns.
C16_ReturnedAreCopies ==
    [][pc' = pc => (StoredVMs' = StoredVMs /\ StoredDBs' = StoredDBs)]_vars

\* what entry i of log ops shows to a reader when the heap is h: its fields,
\* with the resources its result points to
RecordShown(ops, h, i) ==
    [Method |-> ops[i].Method, Args |-> ops[i].Args, Error |-> ops[i].Error,
     Result |-> {h[a] : a \in ops[i].Result}]

\* C17: once an Operation is in the log, its method, arguments, result and
\* error never change, whatever simulator operations run afterwards (no step
\* of this specification resets the log).
C17_RecordsImmutable ==
    [][\A i \in DOMAIN operations :
        /\ i \in DOMAIN operations'
        /\ RecordShown(operations', heap', i) = RecordShown(operations, heap, i)]_vars

\* C18: Reset clears the log, the counters and the VM, bucket and database
\* state as one atomic step: no simulator call runs its logic on the state
\* maps, and no call is recorded, while Reset has cleared some of them and
\* not the others.
C18_ResetAtomic ==
    [][\A p, q \in Procs :
        pc[p] \in ResetMidway
            => /\ ~(pc[q] = "logic" /\ pc'[q] = "record")
               /\ ~(pc[q] = "record" /\ pc'[q] = "locked")]_vars

\* C19: no simulator call holds the lock while it sleeps for its configured
\* delay: while a call sleeps the lock is free or held by another goroutine
\* that is inside recordOperation, so the sleeper delays no concurrent call
\* or recorder query.
C19_NoLockAcrossDelay ==
    \A p \in Procs :
        pc[p] = "sleep" => /\ mu # p
                           /\ mu # 0 => pc[mu] = "locked"

C19_Witness ==
    /\ pc[1] = "sleep" /\ cur[1].method \in delays
    /\ pc[2] = "locked" /\ mu = 2

-----------------------------------------------------------------------------
(* Claims about retryWithBackoff, checked under SpecRetry *)

\* C1: with MaxAttempts = n >= 1 and an operation whose every call fails with
\* a retryable error, a run that is not aborted by ctx invokes the operation
\* exactly n times and returns the error of the n-th attempt.
C1_ExactlyNAttempts ==
    (rpc = "done" /\ config.MaxAttempts >= 1 /\ allRetryable /\ via # "ctx")
        => /\ calls = config.MaxAttempts
           /\ ret = lastErr
           /\ ret.seq = config.MaxAttempts
           /\ ret # Nil

C1_Witness ==
    /\ rpc = "done" /\ via = "exhausted" /\ allRetryable
    /\ config.MaxAttempts = 3 /\ calls = 3 /\ ret.seq = 3

\* C2: when the first call fails with a non-retryable error, the operation is
\* invoked exactly once, nothing is slept, and that error is returned,
\* whatever MaxAttempts is.
C2_NonRetryableOnce ==
    (lastErr.seq = 1 /\ ~isRetryableError(svc, lastErr))
        => /\ rpc = "done"
           /\ calls = 1
           /\ sleeps = <<>>
           /\ ret = lastErr

C2_Witness ==
    /\ lastErr.seq = 1 /\ lastErr.code = "AccessDenied"
    /\ ~isRetryableError(svc, lastErr)
    /\ config.MaxAttempts = MaxAttemptsBound
    /\ rpc = "done" /\ calls = 1

\* C3: if ctx is cancelled after attempt k returned a retryable failure and
\* before attempt k+1 starts, the operation is not invoked a (k+1)-th time.
C3_NoAttemptAfterCancel ==
    cancelCalls >= 0 => calls = cancelCalls

\* C4: with InitialDelay = 100ms, MaxDelay = 5s, BackoffFactor = 2.0 the waits
\* are 100ms, 200ms, 400ms, 800ms, 1.6s, 3.2s, then 5s before every later
\* attempt (sleeps[i] is the wait before attempt i+1).
C4_ExpectedDelay(i) ==
    CASE i = 1 -> 100 [] i = 2 -> 200 [] i = 3 -> 400 [] i = 4 -> 800
      [] i = 5 -> 1600 [] i = 6 -> 3200 [] OTHER -> 5000

C4_DelaySequence ==
    (/\ config.InitialDelay = DefaultRetryConfig.InitialDelay
     /\ config.MaxDelay = DefaultRetryConfig.MaxDelay
     /\ config.BackoffFactor = DefaultRetryConfig.BackoffFactor)
        => \A i \in DOMAIN sleeps : sleeps[i] = C4_ExpectedDelay(i)


\* C20: when the context is already cancelled as an attempt after the first
\* begins, retryWithBackoff returns at once, without waiting out the delay
\* and without invoking the operation, and the error the storage method
\* surfaces for it has code NetworkTimeout.
C20_CancelledAttemptAborts ==
    [][(rpc = "loop" /\ attempt > 1 /\ LoopCond(attempt, config) /\ ctxDone # "no")
        => /\ rpc' = "done"
           /\ via' = "ctx"
           /\ calls' = calls
           /\ sleeps' = sleeps
           /\ svc = "storage" => wrapS3Error(ret') = "ErrNetworkTimeout"]_vars


\* an invocation of operation() returns an error in this step
CallFailsStep == rpc = "call" /\ lastErr' # lastErr

\* C21: an error the operation returns that is, or wraps, context.Canceled
\* or context.DeadlineExceeded is wrapped as NetworkTimeout, and
\* retryWithBackoff returns it at once instead of retrying.
C21_ContextErrorNotRetried ==
    [][(CallFailsStep /\ lastErr'.ctx \in {"canceled", "deadline"})
        => /\ wrapError(svc, lastErr') = "ErrNetworkTimeout"
           /\ rpc' = "done"
           /\ ret' = lastErr'
           /\ calls' = calls]_vars

C21_Witness ==
    /\ rpc = "done"
    /\ via = "nonretryable"
    /\ ret.ctx = "deadline"
    /\ Contains(ToLower(ErrorString(ret)), <<"timeout">>)
    /\ attempt < config.MaxAttempts


NotTransientCodes == {"ErrAuthentication", "ErrAuthorization", "ErrInvalidConfig"}

\* C22: the operation is never invoked again after it returned an error that
\* is wrapped as Authentication, Authorization or InvalidConfig, whatever
\* words the error's message holds.
C22_AuthErrorNotRetried ==
    [][(calls' = calls + 1 /\ calls >= 1)
        => wrapError(svc, lastErr) \notin NotTransientCodes]_vars


\* C28: retryWithBackoff returns nil only when an invocation of the operation
\* returned nil, for every RetryConfig, MaxAttempts of zero included.
C28_SuccessNeedsSuccessfulAttempt ==
    (rpc = "done" /\ ret = Nil) => (via = "success" /\ calls >= 1)

RetryableCloudCodes == {"ErrRateLimit", "ErrNetworkTimeout"}

\* C29: the operation is invoked again only after an error whose CloudError,
\* as the package's wrapper builds it, has a code that NewCloudError marks
\* retryable (RateLimit or NetworkTimeout); so the error returned when the
\* attempts run out is marked retryable too.
C29_RetriedErrorsWrapRetryable ==
    /\ [][(calls' = calls + 1 /\ calls >= 1)
            => wrapError(svc, lastErr) \in RetryableCloudCodes]_vars
    /\ [](via = "exhausted" /\ calls >= 1
            => wrapError(svc, ret) \in RetryableCloudCodes)


-----------------------------------------------------------------------------
(* Further claims about the mock provider *)

\* C30: a CreateVM that generates a new VM leaves the record of every VM
\* already stored in place and adds one record under an id that no stored VM
\* has, also when two creates follow one another at once or run concurrently.
C30_GeneratedIDIsFresh ==
    [][\A p \in Procs :
        (LogicStep(p, "CreateVM") /\ cur[p].args[1] \notin DOMAIN vmResponses)
            => /\ \A id \in DOMAIN vmState :
                    id \in DOMAIN vmState' /\ vmState'[id] = vmState[id]
               /\ Cardinality(DOMAIN vmState') = Cardinality(DOMAIN vmState) + 1]_vars


-----------------------------------------------------------------------------
(* cloudsdk.Client over the mock provider *)

\* the accessor calls explored
MaxAccess == 3

\* MockProvider.Name()
Name == "mock"

\* WithSupportedServices(services...)
WithSupportedServices ==
    /\ \E S \in SUBSET AllServices : supportedServices' = S
    /\ UNCHANGED <<varsRetry, varsSim, access, accessorCalls, panics,
                   varsCloudError, varsCreateBucket, varsSuite>>

SupportsAnyService(service) == TRUE

\* Client.supportsService: a scan of provider.SupportedServices()
supportsService(service) == service \in supportedServices

AccessTotal ==
    accessorCalls["compute"] + accessorCalls["storage"]
        + accessorCalls["database"] + panics

\* Client.Compute / Client.Storage / Client.Database for the given service:
\* panic(NewServiceNotSupportedError(c.provider.Name(), service)) or
\* return c.provider.<Service>()
Accessor(service) ==
    /\ AccessTotal < MaxAccess
    /\ IF ~supportsService(service)
         THEN /\ access' = [service |-> service, outcome |-> "panic",
                            provider |-> Name, named |-> service]
              /\ panics' = panics + 1
              /\ UNCHANGED accessorCalls
         ELSE /\ access' = [service |-> service, outcome |-> "handle",
                            provider |-> "", named |-> ""]
              /\ accessorCalls' = [accessorCalls EXCEPT ![service] = @ + 1]
              /\ UNCHANGED panics
    /\ UNCHANGED <<varsRetry, varsSim, supportedServices, varsCloudError,
                   varsCreateBucket, varsSuite>>

ClientCompute == Accessor("compute")

ClientStorage == Accessor("storage")

ClientDatabase == Accessor("database")

InitClient == New /\ RetryIdle /\ SdkIdle

NextClient ==
    \/ WithSupportedServices
    \/ ClientCompute
    \/ ClientStorage
    \/ ClientDatabase

SpecClient == InitClient /\ [][NextClient]_vars

\* C25: every call of Client.Compute, Client.Storage or Client.Database looks
\* the service up in the provider's supportedServices as they are at the call:
\* when it is absent the call panics with a ServiceNotSupportedError holding
\* the provider's name and the service, and the provider's accessor is not
\* called; when it is present the provider's accessor is called and its
\* handle returned, with no panic.
C25_AccessorChecksSupport ==
    [][(panics' # panics \/ accessorCalls' # accessorCalls)
        => LET sv == access'.service IN
           /\ sv \notin supportedServices
                => /\ access'.outcome = "panic"
                   /\ access'.provider = "mock"
                   /\ access'.named = sv
                   /\ panics' = panics + 1
                   /\ accessorCalls' = accessorCalls
           /\ sv \in supportedServices
                => /\ access'.outcome = "handle"
                   /\ accessorCalls' = [accessorCalls EXCEPT ![sv] = @ + 1]
                   /\ panics' = panics]_vars

\* a service that gave its handle panics once the provider stopped
\* supporting it
C25_Witness ==
    /\ access.outcome = "panic"
    /\ accessorCalls[access.service] > 0


-----------------------------------------------------------------------------
(* cloudsdk.CloudError *)

\* the CloudErrors built, and the suggestions one of them may collect
MaxErrors == 1
MaxSuggestions == 2

ErrorCodes ==
    {"ErrAuthentication", "ErrAuthorization", "ErrServiceNotSupported",
     "ErrOperationNotSupported", "ErrResourceNotFound", "ErrResourceConflict",
     "ErrRateLimit", "ErrNetworkTimeout", "ErrInvalidConfig", "ErrProviderError"}

IsRetryableRateLimitOnly(code) == code = "ErrRateLimit"

\* cloudsdk.isRetryableError(code ErrorCode)
isRetryableErrorCode(code) ==
    CASE code \in {"ErrRateLimit", "ErrNetworkTimeout"} -> TRUE
      [] OTHER -> FALSE

\* NewCloudError(code, ...): a new CloudError, reached through its address
NewCloudError ==
    /\ Len(cloudErrs) < MaxErrors
    /\ \E code \in ErrorCodes :
        cloudErrs' = Append(cloudErrs,
            [Code |-> code, Suggestions |-> <<>>, Cause |-> "nil",
             Context |-> [RequestID |-> "", Metadata |-> EmptyMap,
                          Retryable |-> isRetryableErrorCode(code)]])
    /\ UNCHANGED <<varsRetry, varsSim, varsClient, enrich, varsCreateBucket,
                   varsSuite>>

\* e.WithSuggestions(suggestions...), e the CloudError at address a
WithSuggestions ==
    \E a \in DOMAIN cloudErrs, suggestions \in {<<"s">>, <<"s", "s">>} :
        /\ Len(cloudErrs[a].Suggestions) + Len(suggestions) <= MaxSuggestions
        /\ cloudErrs' = [cloudErrs EXCEPT ![a].Suggestions = @ \o suggestions]
        /\ enrich' = [op |-> "WithSuggestions", recv |-> a, ret |-> a]
        /\ UNCHANGED <<varsRetry, varsSim, varsClient, varsCreateBucket,
                       varsSuite>>

\* e.WithCause(cause)
WithCause ==
    \E a \in DOMAIN cloudErrs, cause \in {"cause1"} :
        /\ cloudErrs' = [cloudErrs EXCEPT ![a].Cause = cause]
        /\ enrich' = [op |-> "WithCause", recv |-> a, ret |-> a]
        /\ UNCHANGED <<varsRetry, varsSim, varsClient, varsCreateBucket,
                       varsSuite>>

\* e.WithContext(requestID, metadata)
WithContext ==
    \E a \in DOMAIN cloudErrs, requestID \in {"", "req1"},
       metadata \in {EmptyMap, [k \in {"key"} |-> "v1"]} :
        /\ cloudErrs' =
            [cloudErrs EXCEPT
                ![a].Context.RequestID = requestID,
                ![a].Context.Metadata =
                    [k \in DOMAIN @ \cup DOMAIN metadata |->
                        IF k \in DOMAIN metadata THEN metadata[k] ELSE @[k]]]
        /\ enrich' = [op |-> "WithContext", recv |-> a, ret |-> a]
        /\ UNCHANGED <<varsRetry, varsSim, varsClient, varsCreateBucket,
                       varsSuite>>

InitCloudError == New /\ RetryIdle /\ SdkIdle

NextCloudError ==
    \/ NewCloudError
    \/ WithSuggestions
    \/ WithCause
    \/ WithContext

SpecCloudError == InitCloudError /\ [][NextCloudError]_vars

\* C23: the Retryable flag of every CloudError is true exactly when its code
\* is RateLimit or NetworkTimeout, from NewCloudError on and after any
\* number of WithSuggestions, WithCause and WithContext calls.
C23_RetryableFromCode ==
    \A a \in DOMAIN cloudErrs :
        cloudErrs[a].Context.Retryable
            <=> cloudErrs[a].Code \in {"ErrRateLimit", "ErrNetworkTimeout"}

C23_Witness ==
    \E a \in DOMAIN cloudErrs :
        /\ cloudErrs[a].Code = "ErrNetworkTimeout"
        /\ cloudErrs[a].Context.Retryable
        /\ cloudErrs[a].Suggestions # <<>>
        /\ cloudErrs[a].Cause # "nil"
        /\ cloudErrs[a].Context.RequestID # ""
        /\ cloudErrs[a].Context.Metadata # EmptyMap

\* C24: WithSuggestions, WithCause and WithContext leave the CloudError they
\* are called on as it was; what they add is seen only through the value
\* they return.
C24_EnrichmentLeavesReceiver ==
    [][enrich' # enrich
        => cloudErrs'[enrich'.recv] = cloudErrs[enrich'.recv]]_vars


-----------------------------------------------------------------------------
(* AWSStorage.CreateBucket: two calls of retryWithBackoff under one ctx *)

\* retryWithBackoff is entered: lastErr is nil, delay is config.InitialDelay
EnterRetry ==
    /\ rpc' = "loop"
    /\ attempt' = 1
    /\ delay' = config.InitialDelay
    /\ lastErr' = Nil
    /\ ret' = Nil
    /\ calls' = 0
    /\ sleeps' = <<>>
    /\ allRetryable' = TRUE
    /\ via' = "none"
    /\ cancelCalls' = -1

\* CreateBucket is called: the checks of config, then the CreateBucket request
\* under retryWithBackoff
AWSCreateBucket ==
    /\ phase = "none"
    /\ \E valid \in BOOLEAN, v \in BOOLEAN :
        /\ versioning' = v
        /\ IF ~valid
             THEN /\ out' = "ErrInvalidConfig"
                  /\ phase' = "returned"
                  /\ UNCHANGED <<rpc, attempt, delay, lastErr, ret, calls, sleeps,
                                 allRetryable, via, cancelCalls>>
             ELSE /\ phase' = "create"
                  /\ EnterRetry
                  /\ UNCHANGED out
    /\ UNCHANGED <<varsSim, svc, config, ctxDone, varsClient, varsCloudError,
                   varsSuite>>

\* the first retryWithBackoff has returned retryErr
AWSCreateBucketCreated ==
    /\ phase = "create" /\ rpc = "done"
    /\ IF ret # Nil
         THEN /\ out' = wrapS3Error(ret)
              /\ phase' = "returned"
              /\ UNCHANGED <<rpc, attempt, delay, lastErr, ret, calls, sleeps,
                             allRetryable, via, cancelCalls>>
         ELSE IF versioning
           THEN /\ phase' = "versioning"
                /\ EnterRetry
                /\ UNCHANGED out
           ELSE /\ out' = "nil"
                /\ phase' = "returned"
                /\ UNCHANGED <<rpc, attempt, delay, lastErr, ret, calls, sleeps,
                               allRetryable, via, cancelCalls>>
    /\ UNCHANGED <<varsSim, svc, config, ctxDone, versioning, varsClient,
                   varsCloudError, varsSuite>>

\* the retryWithBackoff of PutBucketVersioning has returned versioningRetryErr:
\* it is logged, and CreateBucket returns nil
AWSCreateBucketVersioned ==
    /\ phase = "versioning" /\ rpc = "done"
    /\ out' = "nil"
    /\ phase' = "returned"
    /\ UNCHANGED <<varsSim, varsRetry, versioning, varsClient, varsCloudError,
                   varsSuite>>

\* an AWSStorage built by NewWithOptions with some RetryConfig
InitCreateBucket ==
    /\ New
    /\ SdkIdle
    /\ svc = "storage"
    /\ config \in Configs
    /\ rpc = "done"
    /\ attempt = 1
    /\ delay = 0
    /\ lastErr = Nil
    /\ ret = Nil
    /\ ctxDone = "no"
    /\ calls = 0
    /\ sleeps = <<>>
    /\ allRetryable = TRUE
    /\ via = "none"
    /\ cancelCalls = -1

NextCreateBucket ==
    \/ AWSCreateBucket
    \/ AWSCreateBucketCreated
    \/ AWSCreateBucketVersioned
    \/ FirstAttempt
    \/ SelectPoll
    \/ TimerFires
    \/ Cancel
    \/ OperationSucceeds
    \/ OperationFails
    \/ LoopExit

SpecCreateBucket == InitCreateBucket /\ [][NextCreateBucket]_vars

\* C26: when the last attempt of a request made inside CreateBucket failed and
\* retryWithBackoff returned that error, CreateBucket returns an error.
C26_NoErrorSwallowed ==
    (phase = "returned" /\ via \in {"nonretryable", "exhausted"} /\ ret # Nil)
        => out # "nil"


-----------------------------------------------------------------------------
(* ProviderContractSuite run on a fresh mock provider by one goroutine *)

\* the service calls of TestComputeService, TestStorageService and
\* TestDatabaseService, in the order RunAllTests makes them
SuiteScript ==
    << "ListVMs", "CreateVM", "GetVM", "ListVMs", "StopVM", "StartVM",
       "DeleteVM", "GetVM",
       "ListBuckets", "CreateBucket", "ListBuckets", "PutObject", "GetObject",
       "ListObjects", "DeleteObject", "DeleteBucket",
       "ListDBs", "CreateDB", "GetDB", "ListDBs", "DeleteDB", "GetDB" >>

SuiteEnd == Len(SuiteScript) + 1

FirstCompute == 1
FirstStorage == 9
FirstDatabase == 17

objectKey == "test-object.txt"
testData == "Hello, World!"

\* GenerateBucketName("contract-test") at clock reading t
GenerateBucketName(t) == "contract-test-test-" \o ToString(t)

\* the first call of the next service test that RunAllTests runs, from step k on
StartFrom(k) ==
    IF k <= FirstCompute /\ supportsService("compute") THEN FirstCompute
    ELSE IF k <= FirstStorage /\ supportsService("storage") THEN FirstStorage
    ELSE IF k <= FirstDatabase /\ supportsService("database") THEN FirstDatabase
    ELSE SuiteEnd

\* AssertVMValid / AssertDBValid on the resource returned: not nil, and ID,
\* Name and State (Status) not empty
AssertValid(r) ==
    /\ r.result # {}
    /\ \A a \in r.result :
        heap[a].ID # "" /\ heap[a].Name # "" /\ heap[a].State # ""

\* AssertEqual on the ID and the Name of the resource returned
AssertSame(r) ==
    \A a \in r.result :
        heap[a].ID = suiteSaved.ID /\ heap[a].Name = suiteSaved.Name

\* h.t.Fatal is called on the result r of call k
SuiteFatal(k, r) ==
    CASE k \in {2, 18} -> r.err = "nil" /\ ~AssertValid(r)
      [] k \in {3, 19} -> r.err = "nil" /\ ~(AssertValid(r) /\ AssertSame(r))
      [] OTHER -> FALSE

\* s.t.Error or s.t.Errorf is called on the result r of call k
SuiteError(k, r) ==
    CASE k \in {4, 20} ->
            \/ r.err # "nil"
            \/ ~\E a \in r.result : heap[a].ID = suiteSaved.ID
      [] k \in {5, 6} -> FALSE
      [] k \in {8, 22} ->
            \/ r.err = "nil"
            \/ r.err \in ErrorCodes /\ r.err # "ErrResourceNotFound"
      [] k = 11 -> r.err # "nil" \/ suiteSaved.Name \notin r.result
      [] k = 13 ->
            \/ r.err # "nil"
            \/ \E reader \in r.result : reader.unread # testData
      [] k = 14 ->
            \/ r.err # "nil"
            \/ ~\E obj \in r.result : obj.Key = objectKey
            \/ \E obj \in r.result :
                    obj.Key = objectKey /\ obj.Size # Len(testData)
      [] OTHER -> r.err # "nil"

\* the call the suite makes after call k returned r
SuiteNext(k, r) ==
    IF k = 0 THEN StartFrom(FirstCompute)
    ELSE IF SuiteFatal(k, r) THEN SuiteEnd
    ELSE CASE k \in {1, 2} -> IF r.err # "nil" THEN StartFrom(FirstStorage) ELSE k + 1
           [] k = 5 -> IF r.err # "nil" THEN 7 ELSE 6
           [] k = 8 -> StartFrom(FirstStorage)
           [] k \in {9, 10} -> IF r.err # "nil" THEN StartFrom(FirstDatabase) ELSE k + 1
           [] k = 12 -> IF r.err # "nil" THEN 16 ELSE 13
           [] k = 16 -> StartFrom(FirstDatabase)
           [] k \in {17, 18} -> IF r.err # "nil" THEN SuiteEnd ELSE k + 1
           [] OTHER -> k + 1

\* the arguments of call k, saved the resource the running test holds
SuiteArgs(k, saved) ==
    CASE k = 2 -> <<"contract-test-vm">>
      [] k \in {3, 5, 6, 7, 8, 19, 21, 22} -> <<saved.ID>>
      [] k \in {10, 14, 16} -> <<saved.Name>>
      [] k = 12 -> <<saved.Name, objectKey, testData>>
      [] k \in {13, 15} -> <<saved.Name, objectKey>>
      [] k = 18 -> <<"contract-test-db">>
      [] OTHER -> <<>>

\* the service whose client accessor the suite calls before call k
SuiteAccessor(k) ==
    CASE k = FirstCompute -> {"compute"}
      [] k = FirstStorage -> {"storage"}
      [] k = FirstDatabase -> {"database"}
      [] OTHER -> {}

\* the suite checks what its last call returned and makes its next call
SuiteCall ==
    /\ pc[1] = "idle" /\ ~crashed
    /\ suiteStep < SuiteEnd
    /\ LET k == suiteStep
           r == res[1]
           nxt == SuiteNext(k, r)
       IN
        /\ suiteFailed' = (suiteFailed \/ (k > 0 /\ (SuiteFatal(k, r) \/ SuiteError(k, r))))
        /\ suiteStep' = nxt
        /\ accessorCalls' = [sv \in AllServices |->
                                IF sv \in SuiteAccessor(nxt)
                                  THEN accessorCalls[sv] + 1 ELSE accessorCalls[sv]]
        /\ \E t \in ClockReadings :
            /\ now' = IF nxt = 10 THEN t ELSE now
            /\ suiteSaved' =
                IF nxt = 10
                  THEN [ID |-> GenerateBucketName(t), Name |-> GenerateBucketName(t)]
                ELSE IF k \in {2, 18} /\ r.err = "nil" /\ r.result # {}
                  THEN LET a == CHOOSE a \in r.result : TRUE
                       IN  [ID |-> heap[a].ID, Name |-> heap[a].Name]
                ELSE suiteSaved
        /\ IF nxt = SuiteEnd
             THEN UNCHANGED <<pc, cur, res, started>>
             ELSE LET call == [method |-> SuiteScript[nxt],
                               args |-> SuiteArgs(nxt, suiteSaved')]
                  IN  /\ cur' = [cur EXCEPT ![1] = call]
                      /\ started' = TRUE
                      /\ IF call.method \in delays
                           THEN /\ pc' = [pc EXCEPT ![1] = "sleep"]
                                /\ res' = [res EXCEPT ![1] = NoRes]
                           ELSE AfterDelay(1, call)
    /\ UNCHANGED <<varsRetry, vmResponses, dbResponses, errors, delays, heap,
                   vmState, bucketState, dbState, mu, operations, callCounts,
                   lastCallArgs, tmp, crashed, callsLeft, setupLeft, completed,
                   supportedServices, access, panics, varsCloudError,
                   varsCreateBucket>>

\* mock.New(region) handed to NewProviderContractSuite
InitSuite == InitSequential(0)

NextSuite ==
    \/ SuiteCall
    \/ \E p \in Solo :
        \/ CreateVM(p)
        \/ GetVM(p)
        \/ ListVMs(p)
        \/ StopVM(p)
        \/ StartVM(p)
        \/ DeleteVM(p)
        \/ CreateBucket(p)
        \/ ListBuckets(p)
        \/ PutObject(p)
        \/ GetObject(p)
        \/ ListObjects(p)
        \/ DeleteObject(p)
        \/ DeleteBucket(p)
        \/ CreateDB(p)
        \/ GetDB(p)
        \/ ListDBs(p)
        \/ DeleteDB(p)
        \/ RecordAppend(p)
        \/ RecordReturn(p)

SpecSuite == InitSuite /\ [][NextSuite]_vars

\* C27: run on a fresh mock provider that supports the three services, the
\* suite's compute, storage and database sequences never call s.t.Error,
\* s.t.Errorf or h.t.Fatal, and the run goes through every call to the end.
C27_SuitePassesOnMock ==
    /\ ~suiteFailed
    /\ suiteStep = SuiteEnd
        => \A m \in Methods :
             completed[m] = Cardinality({i \in DOMAIN SuiteScript : SuiteScript[i] = m})

C27_Witness ==
    /\ suiteStep = SuiteEnd
    /\ ~suiteFailed
    /\ completed["GetVM"] = 2
    /\ completed["DeleteBucket"] = 1
    /\ completed["GetDB"] = 2
    /\ vmState = EmptyMap /\ bucketState = EmptyMap /\ dbState = EmptyMap

=============================================================================
